---------------------------- MODULE Spec2Model ----------------------------
(***************************************************************************)
(* A model of the document-surgery code of CiteFix:                        *)
(*   src/document.py   RelationshipManager, WordDocumentProcessor          *)
(*   src/formatter.py  DocumentProcessor, LinkActivator                    *)
(*                                                                         *)
(* A part of the package is a sequence of tokens.  A token is a piece of   *)
(* the part's text that the regular expressions of the code never look     *)
(* into: one tag, one character of text, one entity.  The regular          *)
(* expressions are modelled on these sequences.                            *)
(***************************************************************************)
EXTENDS Integers, Sequences, FiniteSets, TLC

(***************************************************************************)
(* Bounds of the model.                                                    *)
(***************************************************************************)
\* the notes of endnotes.xml besides the separator note -1
MaxNotes == 2
\* the calls of write_endnote, or of process, in one behaviour
MaxOps == 2
\* the calls of add_hyperlink in one behaviour
MaxAdds == 3
\* the characters of the text run of a document given to process
MaxTextLen == 3
\* the outcomes of uuid4().hex[:8] the model draws from
UuidChoices == 2
\* the citations of one call of create_formatted_docx
MaxCitations == 2
\* the pieces of a markup string given to _html_to_word_xml
MaxPieces == 4
\* the WordDocumentProcessor instances of one behaviour
MaxProcessors == 2

(***************************************************************************)
(* Tokens.                                                                 *)
(***************************************************************************)
Tag(s) == [k |-> "tag", n |-> 0, r |-> << >>, s |-> s]
Chr(c) == [k |-> "chr", n |-> 0, r |-> << >>, s |-> c]
\* <w:endnote w:id="n">
NoteOpen(n) == [k |-> "noteOpen", n |-> n, r |-> << >>, s |-> ""]
\* <w:endnote w:id="n"/>
NoteSelfClosed(n) == [k |-> "noteSelfClosed", n |-> n, r |-> << >>, s |-> ""]
\* <w:hyperlink r:id="rId...">, r the characters after rId
HlOpen(r) == [k |-> "hlOpen", n |-> 0, r |-> r, s |-> ""]

NoteClose == Tag("</w:endnote>")
POpen == Tag("<w:p>")
PClose == Tag("</w:p>")
ROpen == Tag("<w:r>")
RClose == Tag("</w:r>")
TOpen == Tag("<w:t>")
TOpenPreserve == Tag("<w:t xml:space=\"preserve\">")
TClose == Tag("</w:t>")
RPrItalic == Tag("<w:rPr><w:i/></w:rPr>")
RPrHyperlink == Tag("<w:rPr><w:rStyle w:val=\"Hyperlink\"/></w:rPr>")
HlClose == Tag("</w:hyperlink>")

Chars(cs) == [i \in 1..Len(cs) |-> Chr(cs[i])]

\* the least element of a non-empty set of integers
Least(S) == CHOOSE x \in S : \A y \in S : x <= y

\* the concatenation of a sequence of sequences
RECURSIVE Flatten(_)
Flatten(ss) == IF ss = << >> THEN << >> ELSE Head(ss) \o Flatten(Tail(ss))

\* the decimal digits of a natural number
RECURSIVE ToDigits(_)
ToDigits(n) == IF n < 10 THEN <<n>> ELSE ToDigits(n \div 10) \o <<n % 10>>

(***************************************************************************)
(* Text-mode file I/O: open(path, 'r') and open(path, 'w') translate line  *)
(* ends.  Reading turns "\r\n" and "\r" into "\n"; writing turns "\n" into *)
(* os.linesep, which is "\n" or "\r\n" with the platform.                  *)
(***************************************************************************)
Lineseps == {"\n", "\r\n"}

ReadChar(t) ==
    IF t.k = "chr" /\ t.s \in {"\r\n", "\r"} THEN Chr("\n") ELSE t

ReadText(bytes) == [i \in 1..Len(bytes) |-> ReadChar(bytes[i])]

WriteChar(t, sep) ==
    IF t.k = "chr" /\ t.s = "\n" THEN Chr(sep) ELSE t

WriteText(str, sep) == [i \in 1..Len(str) |-> WriteChar(str[i], sep)]

(***************************************************************************)
(* RelationshipManager.  The table is the dict `relationships` in its      *)
(* insertion order; a relationship id is the sequence of the hexadecimal   *)
(* digits that follow "rId".                                               *)
(***************************************************************************)
HexLen == 8
HyperlinkType ==
    "http://schemas.openxmlformats.org/officeDocument/2006/relationships/hyperlink"

IndexOfId(table, rid) == {i \in 1..Len(table) : table[i].id = rid}
HasId(table, rid) == IndexOfId(table, rid) # {}
Lookup(table, rid) == table[Least(IndexOfId(table, rid))]
Ids(table) == {table[i].id : i \in 1..Len(table)}

\* self.relationships[rid] = data
DictSet(table, rid, data) ==
    LET e == [id |-> rid, target |-> data.target, type |-> data.type,
              external |-> data.external]
    IN IF HasId(table, rid)
       THEN [table EXCEPT ![Least(IndexOfId(table, rid))] = e]
       ELSE Append(table, e)

\* A relationships part on disk: ex, the file exists; wf, it parses; ser, eol,
\* what wrote it and the line end after its declaration; tag, the qualified
\* name of its Relationship elements ("Relationship" with the default
\* namespace, "r:Relationship" with a prefix); rels, those elements (id,
\* target, type, mode) in order.
NoRelsFile ==
    [ex |-> FALSE, wf |-> TRUE, ser |-> "", eol |-> "", tag |-> "",
     rels |-> << >>]

RECURSIVE LoadEntries(_, _)
LoadEntries(rels, table) ==
    IF rels = << >> THEN table
    ELSE LoadEntries(Tail(rels),
             DictSet(table, Head(rels).id,
                 [target |-> Head(rels).target, type |-> Head(rels).type,
                  external |-> (Head(rels).mode = "External")]))

\* dom.getElementsByTagName("Relationship") compares qualified names
RelsLoad(file) ==
    IF ~file.ex THEN << >>
    ELSE IF ~file.wf THEN << >>
    ELSE IF file.tag # "Relationship" THEN << >>
    ELSE LoadEntries(file.rels, << >>)

\* uuid.uuid4().hex[:8]: HexLen - 1 zeros and one digit out of UuidChoices
UuidPool ==
    {[i \in 1..HexLen |-> IF i < HexLen THEN 0 ELSE d] :
        d \in 9 .. (8 + UuidChoices)}

\* add_hyperlink with the uuid it drew: the table after it, and the id it returns
AddHyperlinkId(table, url, uuid) == uuid

\* add_hyperlink without 'external': True
AddHyperlinkTableInternal(table, url, uuid) ==
    DictSet(table, AddHyperlinkId(table, url, uuid),
        [target |-> url, type |-> HyperlinkType, external |-> FALSE])

AddHyperlinkTable(table, url, uuid) ==
    DictSet(table, AddHyperlinkId(table, url, uuid),
        [target |-> url, type |-> HyperlinkType, external |-> TRUE])

RelsSave(table, sep) ==
    [ex |-> TRUE, wf |-> TRUE, ser |-> "minidom",
     eol |-> IF sep = "\n" THEN "\r\n" ELSE "\r\r\n",
     tag |-> "Relationship",
     rels |-> [i \in 1..Len(table) |->
                 [id |-> table[i].id, target |-> table[i].target,
                  type |-> table[i].type,
                  mode |-> IF table[i].external THEN "External" ELSE ""]]]


(***************************************************************************)
(* The markup translator, WordDocumentProcessor._html_to_word_xml.  A      *)
(* markup string is a sequence of characters; UrlHead stands for the       *)
(* characters "http://x", the least text https?://[^\s<]+ matches.         *)
(***************************************************************************)
UrlHead == "http://x"
IsSpace(c) == c \in {" ", "\t", "\n", "\r"}
TrailingPunct == {".", ",", ";", ":", ")"}

EscapeChar(c) ==
    CASE c = "&" -> "&amp;"
      [] c = "<" -> "&lt;"
      [] c = ">" -> "&gt;"
      [] c = "\"" -> "&quot;"
      [] c = "'" -> "&apos;"
      [] OTHER -> c

\* the text as it is, nothing replaced
EscapeXmlNothing(text) == Chars(text)

\* _escape_xml, character by character
EscapeXml(text) == [i \in 1..Len(text) |-> Chr(EscapeChar(text[i]))]

StartsWith(s, pre) == Len(s) >= Len(pre) /\ SubSeq(s, 1, Len(pre)) = pre
Drop(s, n) == SubSeq(s, n + 1, Len(s))

\* one run of literal text: lines 122-126
TextRun(buf, in_italic) ==
    IF buf = << >> THEN << >>
    ELSE <<ROpen>> \o (IF in_italic THEN <<RPrItalic>> ELSE << >>)
         \o <<TOpenPreserve>> \o EscapeXml(buf) \o <<TClose, RClose>>

\* re.split(r'(</?i>)', part) and the loop over its subparts: lines 118-126
RECURSIVE ItalicRuns(_, _, _)
ItalicRuns(part, in_italic, buf) ==
    IF part = << >> THEN TextRun(buf, in_italic)
    ELSE IF StartsWith(part, <<"<", "i", ">">>)
         THEN TextRun(buf, in_italic) \o ItalicRuns(Drop(part, 3), TRUE, << >>)
    ELSE IF StartsWith(part, <<"<", "/", "i", ">">>)
         THEN TextRun(buf, in_italic) \o ItalicRuns(Drop(part, 4), FALSE, << >>)
    ELSE ItalicRuns(Tail(part), in_italic, Append(buf, Head(part)))

\* where the first match of https?://[^\s<]+ starts in html, 0 if there is none
UrlStart(html) ==
    LET S == {i \in 1..Len(html) : html[i] = UrlHead}
    IN IF S = {} THEN 0 ELSE Least(S)

\* the index after the last character of the match that starts at u
UrlStop(html, u) ==
    Least({j \in (u + 1)..(Len(html) + 1) :
              j = Len(html) + 1 \/ IsSpace(html[j]) \/ html[j] = "<"})

\* the number of URLs re.split(r'(https?://[^\s<]+)', html) finds
RECURSIVE CountUrls(_)
CountUrls(html) ==
    IF UrlStart(html) = 0 THEN 0
    ELSE 1 + CountUrls(Drop(html, UrlStop(html, UrlStart(html)) - 1))

\* a loop that strips nothing
CleanLenWhole(url) == Len(url)

\* the while loop of lines 130-132: the length of clean_url
RECURSIVE CleanLen(_)
CleanLen(url) ==
    IF url # << >> /\ url[Len(url)] \in TrailingPunct
    THEN CleanLen(SubSeq(url, 1, Len(url) - 1))
    ELSE Len(url)

CleanUrl(url) == SubSeq(url, 1, CleanLen(url))
Trailing(url) == SubSeq(url, CleanLen(url) + 1, Len(url))

\* the hyperlink of line 136 and the trailing run of line 138
HyperlinkXml(rel_id, clean_url) ==
    <<HlOpen(rel_id), ROpen, RPrHyperlink, TOpen>> \o EscapeXml(clean_url)
    \o <<TClose, RClose, HlClose>>

TrailingXml(trailing) ==
    IF trailing = << >> THEN << >>
    ELSE <<ROpen, TOpen>> \o EscapeXml(trailing) \o <<TClose, RClose>>

\* The loop over parts, lines 115-138: the runs emitted and the table after
\* the add_hyperlink calls; uuids holds the value uuid4 gives to each call.
RECURSIVE TranslateParts(_, _, _)
TranslateParts(html, table, uuids) ==
    LET u == UrlStart(html) IN
    IF u = 0 THEN [xml |-> ItalicRuns(html, FALSE, << >>), table |-> table]
    ELSE
      LET stop == UrlStop(html, u)
          part == SubSeq(html, u, stop - 1)
          clean_url == CleanUrl(part)
          trailing == Trailing(part)
          rel_id == AddHyperlinkId(table, clean_url, Head(uuids))
          table1 == IF clean_url # << >>
                    THEN AddHyperlinkTable(table, clean_url, Head(uuids))
                    ELSE table
          link == IF clean_url # << >> THEN HyperlinkXml(rel_id, clean_url)
                  ELSE << >>
          rest == TranslateParts(Drop(html, stop - 1), table1, Tail(uuids))
      IN [xml |-> ItalicRuns(SubSeq(html, 1, u - 1), FALSE, << >>)
                  \o link \o TrailingXml(trailing) \o rest.xml,
          table |-> rest.table]

HtmlToWordXml(html, table, uuids) ==
    LET t == TranslateParts(html, table, uuids)
    IN [xml |-> <<POpen>> \o t.xml \o <<PClose>>, table |-> t.table]

(***************************************************************************)
(* The package: the XML parts, each a file that exists or not, and the     *)
(* relationships part of endnotes.xml.                                     *)
(***************************************************************************)
DocumentXml == "word/document.xml"
EndnotesXml == "word/endnotes.xml"
FootnotesXml == "word/footnotes.xml"
StylesXml == "word/styles.xml"
EndnotesRels == "word/_rels/endnotes.xml.rels"
XmlPaths == {DocumentXml, EndnotesXml, FootnotesXml, StylesXml}

NoFile == [ex |-> FALSE, b |-> << >>]
File(bytes) == [ex |-> TRUE, b |-> bytes]

PartPaths(a) ==
    {p \in XmlPaths : a.xml[p].ex} \cup (IF a.rels.ex THEN {EndnotesRels} ELSE {})

(***************************************************************************)
(* WordDocumentProcessor.write_endnote on the extraction directory dir.    *)
(***************************************************************************)
\* <w:endnote[^>]*w:id="{note_id}"[^>]*> matches the token
NoteTagMatches(t, note_id) ==
    t.k \in {"noteOpen", "noteSelfClosed"} /\ t.n = note_id

\* a pattern without the note id: the first note element matches
SearchNoteAnyId(content, note_id) ==
    LET S == {i \in 1..Len(content) :
                content[i].k \in {"noteOpen", "noteSelfClosed"}}
    IN IF S = {} THEN <<0, 0>>
       ELSE LET i == Least(S)
                E == {j \in (i + 1)..Len(content) : content[j] = NoteClose}
            IN IF E = {} THEN <<0, 0>> ELSE <<i, Least(E)>>

\* re.search(pattern, content, re.DOTALL): the indexes of the tokens groups 1
\* and 3 match, <<0, 0>> when there is no match
SearchNote(content, note_id) ==
    LET S == {i \in 1..Len(content) : NoteTagMatches(content[i], note_id)}
    IN IF S = {} THEN <<0, 0>>
       ELSE LET i == Least(S)
                E == {j \in (i + 1)..Len(content) : content[j] = NoteClose}
            IN IF E = {} THEN <<0, 0>> ELSE <<i, Least(E)>>

\* the result of write_endnote and the directory after it; "raised" is the
\* FileNotFoundError of line 97
WriteEndnote(dir, note_id, new_html, uuids, sep) ==
    IF ~dir.xml[EndnotesXml].ex THEN [res |-> "raised", dir |-> dir]
    ELSE
      LET rel_manager == RelsLoad(dir.rels)
          content == ReadText(dir.xml[EndnotesXml].b)
          match == SearchNote(content, note_id)
      IN IF match = <<0, 0>> THEN [res |-> "False", dir |-> dir]
         ELSE
           LET w == HtmlToWordXml(new_html, rel_manager, uuids)
               new_endnote == <<content[match[1]]>> \o w.xml \o <<NoteClose>>
               content1 == SubSeq(content, 1, match[1] - 1) \o new_endnote
                           \o Drop(content, match[2])
           IN [res |-> "True",
               dir |-> [xml |-> [dir.xml EXCEPT
                                   ![EndnotesXml] = File(WriteText(content1, sep))],
                        rels |-> RelsSave(w.table, sep)]]

\* What _save leaves at rels_path when it raises: open(rels_path, 'w') raised
\* and the part is as it was ("open"), or a write raised after open truncated
\* the part ("write")
SaveFailures == {"open", "write"}

TruncatedRelsFile ==
    [ex |-> TRUE, wf |-> FALSE, ser |-> "minidom", eol |-> "", tag |-> "",
     rels |-> << >>]

RelsSaveInterrupted(file, how) ==
    IF how = "open" THEN file ELSE TruncatedRelsFile

\* write_endnote when rel_manager._save() of line 108 raises: endnotes.xml was
\* written at line 107 and the exception leaves the method
WriteEndnoteSaveFails(dir, note_id, new_html, uuids, sep, how) ==
    LET w == WriteEndnote(dir, note_id, new_html, uuids, sep)
    IN IF w.res # "True" THEN w
       ELSE [res |-> "raised",
             dir |-> [xml |-> w.dir.xml,
                      rels |-> RelsSaveInterrupted(dir.rels, how)]]


(***************************************************************************)
(* WordDocumentProcessor.get_endnotes, and DocumentProcessor.parse_citations *)
(* of formatter.py, which reads footnotes with the same expressions.  The  *)
(* text of a note is a sequence of the characters of the part, entities as *)
(* they are written there.                                                 *)
(***************************************************************************)
\* <w:footnote w:id="n">
FootnoteOpen(n) == [k |-> "footnoteOpen", n |-> n, r |-> << >>, s |-> ""]
FootnoteClose == Tag("</w:footnote>")

\* the tokens <w:(?:endnote|footnote)[^>]*w:id="(\d+)"[^>]*> matches, for the
\* tag names of the pattern; \d+ matches no minus sign
OpensNote(t, tag_names) ==
    /\ \/ "endnote" \in tag_names /\ t.k \in {"noteOpen", "noteSelfClosed"}
       \/ "footnote" \in tag_names /\ t.k = "footnoteOpen"
    /\ t.n >= 0

ClosesNote(t, tag_names) ==
    \/ "endnote" \in tag_names /\ t = NoteClose
    \/ "footnote" \in tag_names /\ t = FootnoteClose

\* re.finditer(note_pattern, content, re.DOTALL) from index `from` on: the
\* indexes of the first and of the last token of each match
RECURSIVE FindNotes(_, _, _)
FindNotes(content, from, tag_names) ==
    LET S == {i \in from..Len(content) :
                /\ OpensNote(content[i], tag_names)
                /\ \E j \in (i + 1)..Len(content) :
                     ClosesNote(content[j], tag_names)}
    IN IF S = {} THEN << >>
       ELSE LET i == Least(S)
                j == Least({x \in (i + 1)..Len(content) :
                              ClosesNote(content[x], tag_names)})
            IN <<<<i, j>>>> \o FindNotes(content, j + 1, tag_names)

\* where ([^<]+)(</w:t>) ends after the <w:t...> at index a, 0 if it does
\* not match there
TextNodeEnd(c, a) ==
    LET E == {j \in (a + 1)..Len(c) : c[j].k # "chr" \/ c[j].s = "<"}
    IN IF E = {} THEN 0
       ELSE IF Least(E) > a + 1 /\ c[Least(E)] = TClose THEN Least(E)
       ELSE 0

\* re.search(r'(<w:t[^>]*>)([^<]+)(</w:t>)', note_xml): the indexes of groups
\* 1 and 3, <<0, 0>> when there is no match
SearchTextNode(note_xml) ==
    LET S == {a \in 1..Len(note_xml) :
                note_xml[a] \in {TOpen, TOpenPreserve}
                /\ TextNodeEnd(note_xml, a) # 0}
    IN IF S = {} THEN <<0, 0>>
       ELSE <<Least(S), TextNodeEnd(note_xml, Least(S))>>

\* ''.join of group 1 of re.finditer(r'<w:t[^>]*>([^<]+)</w:t>', note_xml)
RECURSIVE JoinedText(_)
JoinedText(note_xml) ==
    LET m == SearchTextNode(note_xml) IN
    IF m = <<0, 0>> THEN << >>
    ELSE [x \in 1..(m[2] - m[1] - 1) |-> note_xml[m[1] + x].s]
         \o JoinedText(Drop(note_xml, m[2]))

\* str.strip()
RECURSIVE Strip(_)
Strip(text) ==
    IF text = << >> THEN text
    ELSE IF IsSpace(Head(text)) THEN Strip(Tail(text))
    ELSE IF IsSpace(text[Len(text)]) THEN Strip(SubSeq(text, 1, Len(text) - 1))
    ELSE text

\* a note without its text: the `if text:` of line 88 left out
KeepsNoteAnyText(note_id, text) == note_id \notin {0, -1}

\* lines 81 and 88: the match is appended
KeepsNote(note_id, text) == note_id \notin {0, -1} /\ text # << >>

\* the loop over the matches, lines 79-88 and formatter.py 295-309
RECURSIVE NotesOfMatches(_, _)
NotesOfMatches(content, matches) ==
    IF matches = << >> THEN << >>
    ELSE LET m == Head(matches)
             note_id == content[m[1]].n
             note_content == SubSeq(content, m[1] + 1, m[2] - 1)
             text == Strip(JoinedText(note_content))
         IN (IF KeepsNote(note_id, text)
             THEN <<[id |-> note_id, text |-> text,
                     original_xml |-> note_content]>>
             ELSE << >>)
            \o NotesOfMatches(content, Tail(matches))

\* get_endnotes on the extraction directory dir
GetEndnotes(dir) ==
    IF ~dir.xml[EndnotesXml].ex THEN << >>
    ELSE LET content == ReadText(dir.xml[EndnotesXml].b)
         IN NotesOfMatches(content, FindNotes(content, 1, {"endnote"}))

\* parse_citations(content_map.get(xml_file)) after extract_structure
ParseCitations(dir, xml_file) ==
    IF ~dir.xml[xml_file].ex THEN << >>
    ELSE LET xml_content == ReadText(dir.xml[xml_file].b)
         IN NotesOfMatches(xml_content,
                FindNotes(xml_content, 1, {"endnote", "footnote"}))

(***************************************************************************)
(* WordDocumentProcessor.save_as and the archive it writes.  A destination *)
(* is no file ("none"), a complete archive ("zip") or what an interrupted  *)
(* ZipFile write leaves ("partial"): the entries written so far, without a *)
(* central directory.                                                      *)
(***************************************************************************)
EmptyArchive == [xml |-> [p \in XmlPaths |-> NoFile], rels |-> NoRelsFile]
NoArchive == [st |-> "none", a |-> EmptyArchive]
Zip(a) == [st |-> "zip", a |-> a]

\* the order in which os.walk meets the parts: word/ before word/_rels
WalkOrder == <<DocumentXml, EndnotesXml, FootnotesXml, StylesXml, EndnotesRels>>

\* the parts among the first k of WalkOrder
FirstParts(a, k) ==
    [xml |-> [p \in XmlPaths |->
                IF \E i \in 1..k : WalkOrder[i] = p THEN a.xml[p] ELSE NoFile],
     rels |-> IF \E i \in 1..k : WalkOrder[i] = EndnotesRels
              THEN a.rels ELSE NoRelsFile]

\* a walk that does not descend into word/_rels
SaveAsTopLevelOnly(dir) == FirstParts(dir, Len(WalkOrder) - 1)

\* z.write of every file os.walk finds under extract_dir
SaveAsWrites(dir) == FirstParts(dir, Len(WalkOrder))

\* ZipFile(output_path, 'w') truncates the destination; an error while the
\* k+1st part is written leaves the first k entries there
SaveAsInterrupted(dir, k) == [st |-> "partial", a |-> FirstParts(dir, k)]

\* zipfile.extractall of a complete archive
Extract(a) == a

(***************************************************************************)
(* The documents the model opens.                                          *)
(***************************************************************************)
PlainBody ==
    <<POpen, ROpen, TOpen, Chr("a"), TClose, RClose, PClose>>

\* a note whose text is one space
BlankBody ==
    <<POpen, ROpen, TOpenPreserve, Chr(" "), TClose, RClose, PClose>>

\* a note that holds a relationship-backed hyperlink
LinkBody(r) ==
    <<POpen, ROpen, TOpen, Chr("a"), Chr(" "), TClose, RClose,
      HlOpen(r), ROpen, RPrHyperlink, TOpen, Chr(UrlHead), TClose, RClose,
      HlClose, PClose>>

\* a note whose run holds two text nodes with a line break between them
TwoTextsBody ==
    <<POpen, ROpen, TOpen, Chr("a"), TClose, Tag("<w:br/>"),
      TOpen, Chr("a"), Chr("b"), TClose, RClose, PClose>>

SeparatorBody == <<POpen, ROpen, Tag("<w:separator/>"), RClose, PClose>>

\* rId5, an id Word gave; rId00000009, an id an earlier run of add_hyperlink gave
WordRelId == <<5>>
MintedRelId == [i \in 1..HexLen |-> IF i < HexLen THEN 0 ELSE 9]

NoteKinds == {"plain", "linkWord", "linkMinted", "noParagraph", "selfClosed"}

NoteXml(n, kind) ==
    CASE kind = "plain" -> <<NoteOpen(n)>> \o PlainBody \o <<NoteClose>>
      [] kind = "linkWord" -> <<NoteOpen(n)>> \o LinkBody(WordRelId) \o <<NoteClose>>
      [] kind = "linkMinted" -> <<NoteOpen(n)>> \o LinkBody(MintedRelId) \o <<NoteClose>>
      [] kind = "noParagraph" -> <<NoteOpen(n), NoteClose>>
      [] kind = "selfClosed" -> <<NoteSelfClosed(n)>>
      [] kind = "blank" -> <<NoteOpen(n)>> \o BlankBody \o <<NoteClose>>
      [] kind = "twoTexts" -> <<NoteOpen(n)>> \o TwoTextsBody \o <<NoteClose>>

\* endnotes.xml with the notes 1..Len(kinds) after the separator note; nl is
\* the line end after the XML declaration
EndnotesBytes(kinds, nl) ==
    <<Tag("<?xml version=\"1.0\" encoding=\"UTF-8\" standalone=\"yes\"?>"),
      Chr(nl), Tag("<w:endnotes>"), NoteOpen(-1)>> \o SeparatorBody
    \o <<NoteClose>>
    \o Flatten([i \in 1..Len(kinds) |-> NoteXml(i, kinds[i])])
    \o <<Tag("</w:endnotes>")>>

RelEntry(r) ==
    [id |-> r, target |-> <<UrlHead>>, type |-> HyperlinkType, mode |-> "External"]

\* the relationships part that goes with the notes: one entry for each
\* hyperlink, no part when there is none
EndnotesRelsFile(kinds) ==
    LET used == {kinds[i] : i \in 1..Len(kinds)}
        w == IF "linkWord" \in used THEN <<RelEntry(WordRelId)>> ELSE << >>
        m == IF "linkMinted" \in used THEN <<RelEntry(MintedRelId)>> ELSE << >>
    IN IF w \o m = << >> THEN NoRelsFile
       ELSE [ex |-> TRUE, wf |-> TRUE,
             ser |-> IF m = << >> THEN "word" ELSE "minidom",
             eol |-> "\r\n", tag |-> "Relationship", rels |-> w \o m]

StylesBytes == <<Tag("<w:styles/>"), Chr("\r\n")>>
DocumentBytes ==
    <<Tag("<w:document>"), POpen, ROpen, Tag("<w:endnoteReference w:id=\"1\"/>"),
      RClose, PClose, Tag("</w:document>")>>

Document(kinds, nl) ==
    [xml |-> [p \in XmlPaths |->
                CASE p = EndnotesXml -> File(EndnotesBytes(kinds, nl))
                  [] p = StylesXml -> File(StylesBytes)
                  [] p = DocumentXml -> File(DocumentBytes)
                  [] OTHER -> NoFile],
     rels |-> EndnotesRelsFile(kinds)]

KindSeqs == UNION {[1..n -> NoteKinds] : n \in 1..MaxNotes}

Documents == {Document(ks, nl) : ks \in KindSeqs, nl \in {"\r\n", "\n"}}

\* the markup the callers pass to write_endnote: no URL, one URL followed by
\* a full stop, two URLs
Markups ==
    { <<"b">>,
      <<"b", " ", UrlHead, ".">>,
      <<UrlHead, " ", UrlHead, "/", "b">> }

NoteIds == 1..(MaxNotes + 1)

\* the values uuid4 may give to the add_hyperlink calls of one translation
UuidDraws(html) == [1..CountUrls(html) -> UuidPool]

(***************************************************************************)
(* LinkActivator.process: the regular expressions of lines 409-449 on one  *)
(* part.                                                                   *)
(***************************************************************************)
FldBegin == Tag("<w:fldChar w:fldCharType=\"begin\"/>")
FldSeparate == Tag("<w:fldChar w:fldCharType=\"separate\"/>")
FldEnd == Tag("<w:fldChar w:fldCharType=\"end\"/>")
InstrOpen == Tag("<w:instrText xml:space=\"preserve\">")
InstrClose == Tag("</w:instrText>")
InstrHead == Chr(" HYPERLINK \"")
InstrTail == Chr("\" ")
RPrDisplay == Tag("<w:rPr><w:color w:val=\"0000FF\"/><w:u w:val=\"single\"/></w:rPr>")

\* the tokens that start with text that <w:r[^\>]*> matches
RunOpenLike == {ROpen, RPrItalic, RPrHyperlink, RPrDisplay}
\* the tokens that <w:t[^>]*> matches
TOpenLike == {TOpen, TOpenPreserve}

\* the first index from `from` on of a token of T, 0 if there is none
FirstIn(c, from, T) ==
    LET S == {i \in from..Len(c) : c[i] \in T}
    IN IF S = {} THEN 0 ELSE Least(S)

\* the index where the match of run_pattern that starts at i ends, 0 if none
RunMatchEnd(c, i) ==
    LET a == FirstIn(c, i + 1, TOpenLike)
        b == IF a = 0 THEN 0 ELSE FirstIn(c, a + 1, {TClose})
    IN IF b = 0 THEN 0 ELSE FirstIn(c, b + 1, {RClose})

\* html.escape of one character of the part's text
HtmlEscapeChar(c) ==
    CASE c = "&amp;" -> "&amp;amp;"
      [] c = "&lt;" -> "&amp;lt;"
      [] c = "&gt;" -> "&amp;gt;"
      [] c = "&quot;" -> "&amp;quot;"
      [] c = "&apos;" -> "&amp;apos;"
      [] c = "'" -> "&#x27;"
      [] c = "&amp" -> "&amp;amp"
      [] c = "&lt" -> "&amp;lt"
      [] c = "&gt" -> "&amp;gt"
      [] c = "&quot" -> "&amp;quot"
      [] c = "&apos" -> "&amp;apos"
      [] OTHER -> c

HtmlEscape(text) == [i \in 1..Len(text) |-> Chr(HtmlEscapeChar(text[i].s))]

\* a token that [^\s<>"] does not match
EndsLinkUrl(t) == t.k # "chr" \/ IsSpace(t.s) \/ t.s \in {"<", ">", "\""}

\* the index after the match of https?://[^\s<>"]+ that starts at u
LinkUrlStop(text, u) ==
    Least({j \in (u + 1)..(Len(text) + 1) :
              j = Len(text) + 1 \/ EndsLinkUrl(text[j])})

\* url.rstrip('.,;)'): the length of clean_url
RStripPunct == {".", ",", ";", ")"}
RECURSIVE RStripLen(_)
RStripLen(url) ==
    IF url # << >> /\ url[Len(url)].s \in RStripPunct
    THEN RStripLen(SubSeq(url, 1, Len(url) - 1))
    ELSE Len(url)

\* the characters of an entity are characters of the url like any other:
\* rstrip takes the ';' of an entity the url ends with, and its stem stays
Entities == {"&amp;", "&lt;", "&gt;", "&quot;", "&apos;"}
EntityStem(c) ==
    CASE c = "&amp;" -> "&amp"
      [] c = "&lt;" -> "&lt"
      [] c = "&gt;" -> "&gt"
      [] c = "&quot;" -> "&quot"
      [] c = "&apos;" -> "&apos"
      [] OTHER -> c
EndsInEntity(url, kept) == kept > 0 /\ url[kept].s \in Entities

\* a w:hyperlink element in the place of the field
FieldXmlAsHyperlink(safe_url, clean_url) ==
    <<HlOpen(MintedRelId), ROpen, RPrHyperlink, TOpen>> \o clean_url
    \o <<TClose, RClose, HlClose>>

\* the five runs of the field, lines 424-435
FieldXml(safe_url, clean_url) ==
    <<ROpen, FldBegin, RClose, ROpen, InstrOpen, InstrHead>> \o safe_url
    \o <<InstrTail, InstrClose, RClose, ROpen, FldSeparate, RClose,
         ROpen, RPrDisplay, TOpen>> \o clean_url
    \o <<TClose, RClose, ROpen, FldEnd, RClose>>

\* linkify_text_node without the punctuation cut from the url
LinkifyDropsPunct(t_open, text) ==
    LET u == FirstIn(text, 1, {Chr(UrlHead)}) IN
    IF u = 0 THEN <<t_open>> \o text \o <<TClose>>
    ELSE
      LET stop == LinkUrlStop(text, u)
          url == SubSeq(text, u, stop - 1)
          clean_url == SubSeq(url, 1, RStripLen(url))
      IN <<t_open>> \o SubSeq(text, 1, u - 1) \o <<TClose, RClose>>
         \o FieldXml(HtmlEscape(clean_url), clean_url)
         \o <<ROpen, TOpen>> \o Drop(text, stop - 1) \o <<TClose>>

\* linkify_text_node: what replaces the text node t_open text </w:t>
LinkifyTextNode(t_open, text) ==
    LET u == FirstIn(text, 1, {Chr(UrlHead)}) IN
    IF u = 0 THEN <<t_open>> \o text \o <<TClose>>
    ELSE
      LET stop == LinkUrlStop(text, u)
          url == SubSeq(text, u, stop - 1)
          kept == RStripLen(url)
          clean_url == IF EndsInEntity(url, kept)
                       THEN SubSeq(url, 1, kept - 1)
                            \o <<Chr(EntityStem(url[kept].s))>>
                       ELSE SubSeq(url, 1, kept)
          trailing_punct == (IF EndsInEntity(url, kept) THEN <<Chr(";")>>
                             ELSE << >>) \o Drop(url, kept)
          pre == SubSeq(text, 1, u - 1)
          post == Drop(text, stop - 1)
      IN <<t_open>> \o pre \o <<TClose, RClose>>
         \o FieldXml(HtmlEscape(clean_url), clean_url)
         \o <<ROpen, TOpen>> \o trailing_punct \o post \o <<TClose>>

\* re.sub(r'(<w:t[^>]*>)(.*?)(</w:t>)', linkify_text_node, ...) on the match
RECURSIVE SubTextNodes(_)
SubTextNodes(seg) ==
    LET a == FirstIn(seg, 1, TOpenLike)
        b == IF a = 0 THEN 0 ELSE FirstIn(seg, a + 1, {TClose})
        nl == IF b = 0 THEN 0 ELSE FirstIn(SubSeq(seg, 1, b), a + 1, {Chr("\n")})
    IN IF b = 0 THEN seg
       ELSE IF nl # 0 THEN SubSeq(seg, 1, a) \o SubTextNodes(Drop(seg, a))
       ELSE SubSeq(seg, 1, a - 1)
            \o LinkifyTextNode(seg[a], SubSeq(seg, a + 1, b - 1))
            \o SubTextNodes(Drop(seg, b))

\* the tokens that hold 'HYPERLINK' or 'w:instrText'
MentionsField == {InstrHead, InstrOpen, InstrClose}

\* process_run on one match of run_pattern
ProcessRun(seg) ==
    IF FirstIn(SubSeq(seg, 2, Len(seg) - 1), 1, MentionsField) # 0 THEN seg
    ELSE SubTextNodes(seg)

\* re.sub(run_pattern, process_run, content, flags=re.DOTALL)
RECURSIVE SubRuns(_)
SubRuns(content) ==
    LET i == FirstIn(content, 1, RunOpenLike)
        m == IF i = 0 THEN 0 ELSE RunMatchEnd(content, i)
    IN IF m = 0 THEN content
       ELSE SubSeq(content, 1, i - 1) \o ProcessRun(SubSeq(content, i, m))
            \o SubRuns(Drop(content, m))

\* lines 402-453 for one target file
ActivateFile(file, sep) ==
    IF ~file.ex THEN file
    ELSE LET content == ReadText(file.b)
             new_content == SubRuns(content)
         IN IF new_content # content THEN File(WriteText(new_content, sep))
            ELSE file

TargetFiles == {DocumentXml, EndnotesXml, FootnotesXml}

\* the files under temp_dir when the archive is written again
Activate(a, sep) ==
    [xml |-> [p \in XmlPaths |->
                IF p \in TargetFiles THEN ActivateFile(a.xml[p], sep)
                ELSE a.xml[p]],
     rels |-> a.rels]


(***************************************************************************)
(* DocumentProcessor.create_formatted_docx of formatter.py: the blind      *)
(* replace of the first text node of a note, in endnotes.xml and in        *)
(* footnotes.xml.  A citation is a record [id, formatted]; formatted is a  *)
(* sequence of characters, written into the part as it is.                 *)
(***************************************************************************)
\* tag_name = "endnote" if "endnote" in xml_file else "footnote"
TagName(xml_file) == IF xml_file = EndnotesXml THEN "endnote" ELSE "footnote"

\* <w:{tag_name}[^>]*w:id="{cid}"[^>]*> matches the token
NoteRegexOpens(t, tag_name, cid) ==
    IF tag_name = "endnote" THEN NoteTagMatches(t, cid)
    ELSE t.k = "footnoteOpen" /\ t.n = cid

CloseTag(tag_name) == IF tag_name = "endnote" THEN NoteClose ELSE FootnoteClose

\* f'<w:{tag_name} w:id="{cid}">'
OpenTag(tag_name, cid) ==
    IF tag_name = "endnote" THEN NoteOpen(cid) ELSE FootnoteOpen(cid)

\* re.search(note_regex, xml_content, re.DOTALL): the indexes of the first
\* and of the last token of the match, <<0, 0>> when there is none
SearchNoteRegex(xml_content, tag_name, cid) ==
    LET S == {i \in 1..Len(xml_content) :
                NoteRegexOpens(xml_content[i], tag_name, cid)}
    IN IF S = {} THEN <<0, 0>>
       ELSE LET i == Least(S)
                E == {j \in (i + 1)..Len(xml_content) :
                        xml_content[j] = CloseTag(tag_name)}
            IN IF E = {} THEN <<0, 0>> ELSE <<i, Least(E)>>

\* str.replace(old, new): every occurrence, from the left
RECURSIVE StrReplace(_, _, _)
StrReplace(str, old, new) ==
    IF Len(str) < Len(old) THEN str
    ELSE IF StartsWith(str, old)
         THEN new \o StrReplace(Drop(str, Len(old)), old, new)
    ELSE <<Head(str)>> \o StrReplace(Tail(str), old, new)

\* lines 333-357 for one citation
BlindReplace(xml_content, tag_name, citation) ==
    LET match == SearchNoteRegex(xml_content, tag_name, citation.id) IN
    IF match = <<0, 0>> THEN xml_content
    ELSE
      LET note_xml == SubSeq(xml_content, match[1] + 1, match[2] - 1)
          text_match == SearchTextNode(note_xml)
      IN IF text_match = <<0, 0>> THEN xml_content
         ELSE
           LET new_xml == SubSeq(note_xml, 1, text_match[1])
                          \o Chars(citation.formatted) \o <<TClose>>
               suffix == Drop(note_xml, text_match[2])
               full_note == <<OpenTag(tag_name, citation.id)>> \o new_xml
                            \o suffix \o <<CloseTag(tag_name)>>
           IN StrReplace(xml_content,
                         SubSeq(xml_content, match[1], match[2]), full_note)

\* the loop over formatted_citations, lines 332-357
RECURSIVE ReplaceCitations(_, _, _)
ReplaceCitations(xml_content, tag_name, formatted_citations) ==
    IF formatted_citations = << >> THEN xml_content
    ELSE ReplaceCitations(
             BlindReplace(xml_content, tag_name, Head(formatted_citations)),
             tag_name, Tail(formatted_citations))

\* lines 326-360 for one of the two files
PatchFile(file, xml_file, formatted_citations, sep) ==
    IF ~file.ex THEN file
    ELSE File(WriteText(ReplaceCitations(ReadText(file.b), TagName(xml_file),
                                         formatted_citations), sep))

PatchedFiles == {EndnotesXml, FootnotesXml}

\* the files under temp_output when the archive is written, lines 322-360
UpdateTextContent(dir, formatted_citations, sep) ==
    [xml |-> [p \in XmlPaths |->
                IF p \in PatchedFiles
                THEN PatchFile(dir.xml[p], p, formatted_citations, sep)
                ELSE dir.xml[p]],
     rels |-> dir.rels]

(***************************************************************************)
(* create_formatted_docx of app.py: it patches endnotes.xml only, and cuts *)
(* the later text nodes out by their character offsets.  The offsets are   *)
(* counted in characters, so each token has a width.                       *)
(***************************************************************************)
\* the number of characters of str(n)
IdWidth(n) == IF n < 0 THEN 1 + Len(ToDigits(0 - n)) ELSE Len(ToDigits(n))

\* the number of characters of a token
Width(t) ==
    CASE t.k = "noteOpen" -> Len("<w:endnote w:id=\"\">") + IdWidth(t.n)
      [] t.k = "noteSelfClosed" -> Len("<w:endnote w:id=\"\"/>") + IdWidth(t.n)
      [] t.k = "footnoteOpen" -> Len("<w:footnote w:id=\"\">") + IdWidth(t.n)
      [] t.k = "hlOpen" -> Len("<w:hyperlink r:id=\"rId\">") + Len(t.r)
      [] t.k = "cut" -> t.n
      [] OTHER -> Len(t.s)

RECURSIVE TotalWidth(_)
TotalWidth(tokens) ==
    IF tokens = << >> THEN 0
    ELSE Width(Head(tokens)) + TotalWidth(Tail(tokens))

\* what is left of a token that a slice cut in two: n of its characters
CutToken(t, n) == [k |-> "cut", n |-> n, r |-> << >>, s |-> t.s]

\* the number of the characters pos .. pos + w - 1 that are in start .. end - 1
Overlap(pos, w, start, end) ==
    LET lo == IF pos > start THEN pos ELSE start
        hi == IF pos + w < end THEN pos + w ELSE end
    IN IF hi > lo THEN hi - lo ELSE 0

\* s[:start] + s[end:] of a string whose first token starts at character pos
RECURSIVE CutChars(_, _, _, _)
CutChars(tokens, pos, start, end) ==
    IF tokens = << >> THEN << >>
    ELSE LET t == Head(tokens)
             gone == Overlap(pos, Width(t), start, end)
             rest == CutChars(Tail(tokens), pos + Width(t), start, end)
         IN IF gone = 0 THEN <<t>> \o rest
            ELSE IF gone = Width(t) THEN rest
            ELSE <<CutToken(t, Width(t) - gone)>> \o rest

\* list(re.finditer(text_pattern, note_xml)) after index `from`: the indexes
\* of groups 1 and 3 of each match
RECURSIVE TextMatches(_, _)
TextMatches(note_xml, from) ==
    LET m == SearchTextNode(Drop(note_xml, from)) IN
    IF m = <<0, 0>> THEN << >>
    ELSE <<<<from + m[1], from + m[2]>>>> \o TextMatches(note_xml, from + m[2])

\* for match in reversed(text_matches[1:]): the matches of `later` from the
\* last to the first, their offsets in note_xml applied to new_xml
RECURSIVE RemoveLater(_, _, _)
RemoveLater(new_xml, note_xml, later) ==
    IF later = << >> THEN new_xml
    ELSE LET m == later[Len(later)]
             start == TotalWidth(SubSeq(note_xml, 1, m[1] - 1))
             end == TotalWidth(SubSeq(note_xml, 1, m[2]))
         IN RemoveLater(CutChars(new_xml, 0, start, end), note_xml,
                        SubSeq(later, 1, Len(later) - 1))

\* lines 229-243 for one citation.  The loop of line 240 binds `match` again:
\* after it match is text_matches[1], the second text node, when there is one
AppReplace(endnotes_content, citation) ==
    LET match == SearchNoteRegex(endnotes_content, "endnote", citation.id) IN
    IF match = <<0, 0>> THEN endnotes_content
    ELSE
      LET note_xml == SubSeq(endnotes_content, match[1] + 1, match[2] - 1)
          text_matches == TextMatches(note_xml, 0)
      IN IF text_matches = << >> THEN endnotes_content
         ELSE
           LET first_match == text_matches[1]
               new_xml == RemoveLater(
                              SubSeq(note_xml, 1, first_match[1])
                              \o Chars(citation.formatted) \o <<TClose>>,
                              note_xml, Tail(text_matches))
               full_note == <<NoteOpen(citation.id)>> \o new_xml
                            \o <<NoteClose>>
               replaced == IF Len(text_matches) > 1
                           THEN SubSeq(note_xml, text_matches[2][1],
                                       text_matches[2][2])
                           ELSE SubSeq(endnotes_content, match[1], match[2])
           IN StrReplace(endnotes_content, replaced, full_note)

\* the loop over formatted_citations, lines 228-243
RECURSIVE AppReplaceCitations(_, _)
AppReplaceCitations(endnotes_content, formatted_citations) ==
    IF formatted_citations = << >> THEN endnotes_content
    ELSE AppReplaceCitations(
             AppReplace(endnotes_content, Head(formatted_citations)),
             Tail(formatted_citations))

\* the files under temp_output when the archive is written, lines 221-246
AppUpdateEndnotes(dir, formatted_citations, sep) ==
    IF dir.xml[EndnotesXml].ex /\ formatted_citations # << >>
    THEN [dir EXCEPT !.xml[EndnotesXml] =
            File(WriteText(AppReplaceCitations(ReadText(@.b),
                                               formatted_citations), sep))]
    ELSE dir

(***************************************************************************)
(* The documents given to LinkActivator.process, and the relationship      *)
(* tables add_hyperlink is called on.                                      *)
(***************************************************************************)
TextAlphabet == {"a", " ", UrlHead, ".", ":", "&amp;", "\n"}
Texts == UNION {[1..n -> TextAlphabet] : n \in 1..MaxTextLen}

TextBody(text) == <<POpen, ROpen, TOpen>> \o Chars(text) \o <<TClose, RClose, PClose>>

ActivateDocument(text, nl) ==
    [xml |-> [p \in XmlPaths |->
                CASE p = EndnotesXml ->
                       File(<<Tag("<w:endnotes>"), Chr(nl), NoteOpen(1)>>
                            \o TextBody(text)
                            \o <<NoteClose, NoteOpen(2)>> \o LinkBody(WordRelId)
                            \o <<NoteClose, Tag("</w:endnotes>")>>)
                  [] p = FootnotesXml ->
                       File(<<Tag("<w:footnotes>")>>
                            \o TextBody(<<"a", " ", UrlHead, ".">>)
                            \o <<Tag("</w:footnotes>")>>)
                  [] p = DocumentXml ->
                       File(<<Tag("<w:document>")>> \o TextBody(<<UrlHead>>)
                            \o <<Tag("</w:document>")>>)
                  [] OTHER -> File(StylesBytes)],
     rels |-> EndnotesRelsFile(<<"linkWord">>)]

ActivateDocuments ==
    {ActivateDocument(text, nl) : text \in Texts, nl \in {"\r\n", "\n"}}

\* rId1 .. rId9 and rId20
NumberedRelIds == [i \in 1..10 |-> IF i < 10 THEN <<i>> ELSE <<2, 0>>]

WordRelsFile(ids) ==
    [ex |-> TRUE, wf |-> TRUE, ser |-> "word", eol |-> "\r\n",
     tag |-> "Relationship",
     rels |-> [i \in 1..Len(ids) |-> RelEntry(ids[i])]]

\* a part with a hyperlink and an internal target (no TargetMode)
InternalEntry(r) ==
    [id |-> r, target |-> <<"styles.xml">>,
     type |-> "http://schemas.openxmlformats.org/officeDocument/2006/relationships/styles",
     mode |-> ""]

MixedRelsFile ==
    [WordRelsFile(<<WordRelId>>) EXCEPT !.rels = @ \o <<InternalEntry(<<6>>)>>]

\* a part that binds the package namespace to a prefix:
\* <r:Relationships xmlns:r="..."><r:Relationship .../></r:Relationships>
PrefixedRelsFile ==
    [WordRelsFile(<<WordRelId>>) EXCEPT !.ser = "other", !.tag = "r:Relationship"]

RelsFiles ==
    {NoRelsFile, WordRelsFile(<<WordRelId>>), WordRelsFile(NumberedRelIds),
     EndnotesRelsFile(<<"linkMinted">>),
     EndnotesRelsFile(<<"linkWord", "linkMinted">>),
     MixedRelsFile, PrefixedRelsFile}

Urls == { <<UrlHead>>, <<UrlHead, "/", "b">> }

\* the documents given to create_formatted_docx: the notes of endnotes.xml,
\* and footnotes.xml with one footnote or no footnotes.xml
FootnotesBytes ==
    <<Tag("<w:footnotes>"), FootnoteOpen(1)>> \o PlainBody
    \o <<FootnoteClose, Tag("</w:footnotes>")>>

FormatDocument(kinds, nl, fn) ==
    [xml |-> [p \in XmlPaths |->
                IF p = FootnotesXml /\ fn THEN File(FootnotesBytes)
                ELSE Document(kinds, nl).xml[p]],
     rels |-> EndnotesRelsFile(kinds)]

\* a relationship's id makes no difference to the blind replace
FormatKindSeqs ==
    UNION {[1..n -> NoteKinds \ {"linkMinted"}] : n \in 1..MaxNotes}

FormatDocuments ==
    {FormatDocument(ks, nl, fn) :
        ks \in FormatKindSeqs, nl \in {"\r\n", "\n"}, fn \in BOOLEAN}

\* the formatted citations the callers pass: no URL, one URL and a full
\* stop, a title in italics with an ampersand
Formatteds ==
    { <<"b">>,
      <<"b", " ", UrlHead, ".">>,
      <<"<", "i", ">", "b", "<", "/", "i", ">", "&">> }

Citations == [id : NoteIds, formatted : Formatteds]

CitationLists == UNION {[1..n -> Citations] : n \in 1..MaxCitations}

\* the documents get_endnotes and parse_citations read: after the separator
\* note -1 there may be a note 0, the continuation separator or a note with
\* text; footnotes.xml holds the two separators and the footnotes 1 and 2
ReadKinds == {"plain", "linkWord", "noParagraph", "selfClosed", "blank"}
ZeroNotes == {"none", "separator", "plain"}

ZeroNoteXml(zero) ==
    CASE zero = "none" -> << >>
      [] zero = "separator" -> <<NoteOpen(0)>> \o SeparatorBody \o <<NoteClose>>
      [] zero = "plain" -> NoteXml(0, "plain")

ReadEndnotesBytes(zero, kinds, nl) ==
    <<Tag("<?xml version=\"1.0\" encoding=\"UTF-8\" standalone=\"yes\"?>"),
      Chr(nl), Tag("<w:endnotes>"), NoteOpen(-1)>> \o SeparatorBody
    \o <<NoteClose>> \o ZeroNoteXml(zero)
    \o Flatten([i \in 1..Len(kinds) |-> NoteXml(i, kinds[i])])
    \o <<Tag("</w:endnotes>")>>

ReadFootnotesBytes ==
    <<Tag("<w:footnotes>"), FootnoteOpen(-1)>> \o SeparatorBody
    \o <<FootnoteClose, FootnoteOpen(0)>> \o SeparatorBody
    \o <<FootnoteClose, FootnoteOpen(1)>> \o PlainBody
    \o <<FootnoteClose, FootnoteOpen(2)>> \o BlankBody
    \o <<FootnoteClose, Tag("</w:footnotes>")>>

ReadDocument(zero, kinds, nl) ==
    [xml |-> [p \in XmlPaths |->
                CASE p = EndnotesXml -> File(ReadEndnotesBytes(zero, kinds, nl))
                  [] p = FootnotesXml -> File(ReadFootnotesBytes)
                  [] OTHER -> Document(kinds, nl).xml[p]],
     rels |-> EndnotesRelsFile(kinds)]

ReadKindSeqs == UNION {[1..n -> ReadKinds] : n \in 1..MaxNotes}

ReadDocuments ==
    {ReadDocument(zero, ks, nl) :
        zero \in ZeroNotes, ks \in ReadKindSeqs, nl \in {"\r\n", "\n"}}

\* The markup given to _html_to_word_xml: up to MaxPieces pieces, each a
\* character or a tag, and some longer strings: a tag nested in the same tag,
\* bold, a tag that is not defined, quotes.
Piece(p) ==
    CASE p = "<i>" -> <<"<", "i", ">">>
      [] p = "</i>" -> <<"<", "/", "i", ">">>
      [] p = "<b>" -> <<"<", "b", ">">>
      [] p = "</b>" -> <<"<", "/", "b", ">">>
      [] p = "<u>" -> <<"<", "u", ">">>
      [] p = "</u>" -> <<"<", "/", "u", ">">>
      [] OTHER -> <<p>>

Pieces == {"a", " ", UrlHead, ".", ":", "&", "<i>", "</i>", "<b>"}

MarkupOf(ps) == Flatten([i \in 1..Len(ps) |-> Piece(ps[i])])

LongMarkups ==
    { MarkupOf(<<"<i>", "a", "<i>", "b", "</i>", "c", "</i>">>),
      MarkupOf(<<"<b>", "a", "<b>", "b", "</b>", "c", "</b>", "a">>),
      MarkupOf(<<"<i>", "a", " ", UrlHead, ".", " ", "a", "</i>", "a">>),
      MarkupOf(<<"<u>", "a", "</u>", " ", UrlHead, "/", ">", "\"", ")", ".">>),
      MarkupOf(<<"a", "'", "<", "a", " ", "(", UrlHead, ")", ":", ";", ",">>) }

TranslatorMarkups ==
    {MarkupOf(ps) : ps \in UNION {[1..n -> Pieces] : n \in 1..MaxPieces}}
    \cup LongMarkups

\* the documents write_endnote translates for: no relationships part, and
\* one that holds an id add_hyperlink gave before
TranslateDocuments ==
    {Document(<<"plain">>, "\n"), Document(<<"linkMinted">>, "\n")}

\* The documents and the markup of the calls of write_endnote that are
\* followed by get_endnotes: a note element without end tag before the note,
\* a relationships part that does not parse; markup with an ampersand, with
\* a space in front, with italics, and the empty markup.
MalformedRelsFile == [WordRelsFile(<<WordRelId>>) EXCEPT !.wf = FALSE]

WriteDocuments ==
    {Document(<<"plain", "linkWord">>, "\n"),
     Document(<<"selfClosed", "plain">>, "\n"),
     [Document(<<"linkWord">>, "\r\n") EXCEPT !.rels = MalformedRelsFile]}

WriteMarkups ==
    { <<"b">>,
      <<"b", " ", UrlHead, ".">>,
      <<"a", "&", "b">>,
      <<" ", "b">>,
      MarkupOf(<<"<i>", "a", "</i>", " ", UrlHead, "/", "b", ",">>),
      << >> }

\* the documents given to create_formatted_docx of app.py: notes with one
\* text node, with a text node in a hyperlink, with two text nodes in one
\* run, and a note element without end tag; the citation lists, the empty
\* list among them
AppKinds == {"plain", "linkWord", "twoTexts", "selfClosed"}

AppDocuments ==
    {Document(ks, nl) :
        ks \in UNION {[1..n -> AppKinds] : n \in 1..MaxNotes},
        nl \in {"\r\n", "\n"}}

AppCitationLists == CitationLists \cup { << >> }

(***************************************************************************)
(* tempfile.mkdtemp and the directories it makes: WordDocumentProcessor    *)
(* keeps a directory of its own, whose name is its temp_dir; extract_dir   *)
(* is the directory 'extracted' in it.  The class never removes it.        *)
(***************************************************************************)
TempNames == 1..MaxProcessors

NoTempDir == [ex |-> FALSE, extracted |-> EmptyArchive]
TempDir(dir) == [ex |-> TRUE, extracted |-> dir]
NoTempDirs == [d \in TempNames |-> NoTempDir]

\* a name is drawn without a look at the directories that exist
MkdtempAnyName(root) == TempNames

\* the names mkdtemp may return: it makes a directory that did not exist
Mkdtemp(root) == {d \in TempNames : ~root[d].ex}

\* the documents the processors are opened on, the markup and the ids of
\* their calls of write_endnote
ProcessorDocuments ==
    {Document(<<"plain", "plain">>, "\n"), Document(<<"linkMinted">>, "\n")}

ProcessorMarkups == { <<"b">>, <<"b", " ", UrlHead, ".">> }
ProcessorNoteIds == 1..2

(***************************************************************************)
(* The state.                                                              *)
(***************************************************************************)
VARIABLES
    linesep,        \* os.linesep of the platform
    source,         \* the archive at docx_path
    extract,        \* the files under extract_dir
    output,         \* the file at output_path
    phase,          \* "open", or "closed" once save_as was called
    last,           \* the last call: op, note_id, html, uuids, res
    prevExtract,    \* extract before the last call
    prevOutput,     \* output before the last call
    nOps,           \* the calls made so far
    relationships,  \* RelationshipManager.relationships
    prevRelationships,  \* relationships before the last call
    returned,       \* the id the last add_hyperlink returned
    activation,     \* what the last LinkActivator.process returned: "True", "False"
    notes,          \* what the last get_endnotes or parse_citations returned
    word_xml,       \* what the last _html_to_word_xml returned
    temp_root,      \* the directories tempfile.mkdtemp made, by name
    processors      \* the temp_dir of each WordDocumentProcessor, in order

procVars == <<source, extract, phase, prevExtract>>
relVars == <<relationships, prevRelationships, returned>>
tempVars == <<temp_root, processors>>
vars == <<linesep, source, extract, output, phase, last, prevExtract,
          prevOutput, nOps, relationships, prevRelationships, returned,
          activation, notes, word_xml, temp_root, processors>>

Call(op, note_id, html, uuids, res) ==
    [op |-> op, note_id |-> note_id, html |-> html, uuids |-> uuids, res |-> res]

NoCall == Call("init", 0, << >>, << >>, "")

\* WordDocumentProcessor(docx_path): the archive is extracted
Init ==
    /\ linesep \in Lineseps
    /\ source \in Documents
    /\ extract = Extract(source)
    /\ output \in {NoArchive, Zip(source)}
    /\ phase = "open"
    /\ last = NoCall
    /\ prevExtract = extract
    /\ prevOutput = output
    /\ nOps = 0
    /\ relationships = << >>
    /\ prevRelationships = << >>
    /\ returned = << >>
    /\ activation = ""
    /\ notes = << >>
    /\ word_xml = << >>
    /\ temp_root = NoTempDirs
    /\ processors = << >>

DoWriteEndnote(note_id, new_html, uuids) ==
    /\ UNCHANGED tempVars
    /\ phase = "open"
    /\ nOps < MaxOps
    /\ LET w == WriteEndnote(extract, note_id, new_html, uuids, linesep)
       IN /\ extract' = w.dir
          /\ last' = Call("write_endnote", note_id, new_html, uuids, w.res)
    /\ prevExtract' = extract
    /\ prevOutput' = output
    /\ nOps' = nOps + 1
    /\ UNCHANGED <<linesep, source, output, phase, activation, notes, word_xml>>
    /\ UNCHANGED relVars

DoSaveAs ==
    /\ UNCHANGED tempVars
    /\ phase = "open"
    /\ output' = Zip(SaveAsWrites(extract))
    /\ last' = Call("save_as", 0, << >>, << >>, "returned")
    /\ phase' = "closed"
    /\ prevExtract' = extract
    /\ prevOutput' = output
    /\ UNCHANGED <<linesep, source, extract, nOps, activation, notes, word_xml>>
    /\ UNCHANGED relVars

\* save_as when writing part k+1 raises (disk full, permission denied)
DoSaveAsFails(k) ==
    /\ UNCHANGED tempVars
    /\ phase = "open"
    /\ output' = SaveAsInterrupted(extract, k)
    /\ last' = Call("save_as", 0, << >>, << >>, "raised")
    /\ phase' = "closed"
    /\ prevExtract' = extract
    /\ prevOutput' = output
    /\ UNCHANGED <<linesep, source, extract, nOps, activation, notes, word_xml>>
    /\ UNCHANGED relVars

Next ==
    \/ \E note_id \in NoteIds, new_html \in Markups :
         \E uuids \in UuidDraws(new_html) :
           DoWriteEndnote(note_id, new_html, uuids)
    \/ DoSaveAs
    \/ \E k \in 0..(Len(WalkOrder) - 1) : DoSaveAsFails(k)

Spec == Init /\ [][Next]_vars

(***************************************************************************)
(* RelationshipManager on its own: a table loaded from a relationships     *)
(* part, and calls of add_hyperlink.                                       *)
(***************************************************************************)
InitRels ==
    /\ linesep = "\n"
    /\ \E f \in RelsFiles : source = [EmptyArchive EXCEPT !.rels = f]
    /\ extract = source
    /\ output = NoArchive
    /\ phase = "open"
    /\ last = NoCall
    /\ prevExtract = extract
    /\ prevOutput = NoArchive
    /\ nOps = 0
    /\ relationships = RelsLoad(extract.rels)
    /\ prevRelationships = relationships
    /\ returned = << >>
    /\ activation = ""
    /\ notes = << >>
    /\ word_xml = << >>
    /\ temp_root = NoTempDirs
    /\ processors = << >>

DoAddHyperlink(url, uuid) ==
    /\ UNCHANGED tempVars
    /\ nOps < MaxAdds
    /\ relationships' = AddHyperlinkTable(relationships, url, uuid)
    /\ returned' = AddHyperlinkId(relationships, url, uuid)
    /\ prevRelationships' = relationships
    /\ last' = Call("add_hyperlink", 0, url, <<uuid>>, "returned")
    /\ nOps' = nOps + 1
    /\ UNCHANGED <<linesep, output, prevOutput, activation, notes, word_xml>>
    /\ UNCHANGED procVars

\* _save writes the table to rels_path
DoRelsSave ==
    /\ UNCHANGED tempVars
    /\ extract' = [extract EXCEPT !.rels = RelsSave(relationships, linesep)]
    /\ prevExtract' = extract
    /\ prevRelationships' = relationships
    /\ last' = Call("_save", 0, << >>, << >>, "returned")
    /\ UNCHANGED <<linesep, source, output, phase, prevOutput, nOps,
                   relationships, returned, activation, notes, word_xml>>

NextRels ==
    \/ \E url \in Urls, uuid \in UuidPool : DoAddHyperlink(url, uuid)
    \/ DoRelsSave

SpecRels == InitRels /\ [][NextRels]_vars

(***************************************************************************)
(* LinkActivator.process(docx_path): the file at docx_path is read and     *)
(* written in place.                                                       *)
(***************************************************************************)
InitActivate ==
    /\ linesep \in Lineseps
    /\ source \in ActivateDocuments
    /\ extract = EmptyArchive
    /\ output = Zip(source)
    /\ phase = "open"
    /\ last = NoCall
    /\ prevExtract = EmptyArchive
    /\ prevOutput = output
    /\ nOps = 0
    /\ relationships = << >>
    /\ prevRelationships = << >>
    /\ returned = << >>
    /\ activation = ""
    /\ notes = << >>
    /\ word_xml = << >>
    /\ temp_root = NoTempDirs
    /\ processors = << >>

\* process returns (True, "Hyperlinks Activated")
DoProcess ==
    /\ UNCHANGED tempVars
    /\ nOps < MaxOps
    /\ output.st = "zip"
    /\ output' = Zip(SaveAsWrites(Activate(Extract(output.a), linesep)))
    /\ last' = Call("process", 0, << >>, << >>, "True")
    /\ activation' = "True"
    /\ UNCHANGED <<notes, word_xml>>
    /\ prevOutput' = output
    /\ nOps' = nOps + 1
    /\ UNCHANGED linesep
    /\ UNCHANGED procVars
    /\ UNCHANGED relVars

\* writing part k+1 of the archive raises: process returns (False, str(e))
DoProcessFails(k) ==
    /\ UNCHANGED tempVars
    /\ nOps < MaxOps
    /\ output.st = "zip"
    /\ output' = SaveAsInterrupted(Activate(Extract(output.a), linesep), k)
    /\ last' = Call("process", 0, << >>, << >>, "False")
    /\ activation' = "False"
    /\ UNCHANGED <<notes, word_xml>>
    /\ prevOutput' = output
    /\ nOps' = nOps + 1
    /\ UNCHANGED linesep
    /\ UNCHANGED procVars
    /\ UNCHANGED relVars

\* docx_path is no archive: ZipFile raises, process returns (False, str(e))
DoProcessBadZip ==
    /\ UNCHANGED tempVars
    /\ nOps < MaxOps
    /\ output.st # "zip"
    /\ output' = output
    /\ last' = Call("process", 0, << >>, << >>, "False")
    /\ activation' = "False"
    /\ UNCHANGED <<notes, word_xml>>
    /\ prevOutput' = output
    /\ nOps' = nOps + 1
    /\ UNCHANGED linesep
    /\ UNCHANGED procVars
    /\ UNCHANGED relVars

NextActivate ==
    \/ DoProcess
    \/ \E k \in 0..(Len(WalkOrder) - 1) : DoProcessFails(k)
    \/ DoProcessBadZip

SpecActivate == InitActivate /\ [][NextActivate]_vars

(***************************************************************************)
(* DocumentProcessor.create_formatted_docx(docx_structure, citations,      *)
(* output_path): extract holds the files of docx_structure['temp_dir'].    *)
(* The call does not change them, so a second call writes what the first   *)
(* wrote; a behaviour makes one call.                                      *)
(***************************************************************************)
InitFormat ==
    /\ linesep \in Lineseps
    /\ source \in FormatDocuments
    /\ extract = Extract(source)
    /\ output \in {NoArchive, Zip(source)}
    /\ phase = "open"
    /\ last = NoCall
    /\ prevExtract = extract
    /\ prevOutput = output
    /\ nOps = 0
    /\ relationships = << >>
    /\ prevRelationships = << >>
    /\ returned = << >>
    /\ activation = ""
    /\ notes = << >>
    /\ word_xml = << >>
    /\ temp_root = NoTempDirs
    /\ processors = << >>

\* the archive of step C, before LinkActivator.process reads it
Rezipped(dir, formatted_citations, sep) ==
    SaveAsWrites(UpdateTextContent(dir, formatted_citations, sep))

\* every step succeeds: lines 318-375
DoCreateFormattedDocx(formatted_citations) ==
    /\ UNCHANGED tempVars
    /\ phase = "open"
    /\ output' = Zip(SaveAsWrites(Activate(
                     Extract(Rezipped(extract, formatted_citations, linesep)),
                     linesep)))
    /\ activation' = "True"
    /\ UNCHANGED <<notes, word_xml>>
    /\ last' = Call("create_formatted_docx", 0, formatted_citations, << >>, "True")
    /\ phase' = "closed"
    /\ prevExtract' = extract
    /\ prevOutput' = output
    /\ nOps' = nOps + 1
    /\ UNCHANGED <<linesep, source, extract>>
    /\ UNCHANGED relVars

\* LinkActivator.process fails while it writes part k+1 of the archive and
\* returns (False, str(e)); line 373 drops what it returns
DoCreateFormattedDocxActivationFails(formatted_citations, k) ==
    /\ UNCHANGED tempVars
    /\ phase = "open"
    /\ output' = SaveAsInterrupted(Activate(
                     Extract(Rezipped(extract, formatted_citations, linesep)),
                     linesep), k)
    /\ activation' = "False"
    /\ UNCHANGED <<notes, word_xml>>
    /\ last' = Call("create_formatted_docx", 0, formatted_citations, << >>, "True")
    /\ phase' = "closed"
    /\ prevExtract' = extract
    /\ prevOutput' = output
    /\ nOps' = nOps + 1
    /\ UNCHANGED <<linesep, source, extract>>
    /\ UNCHANGED relVars

\* step C fails while it writes part k+1: the exception leaves the function
DoCreateFormattedDocxZipFails(formatted_citations, k) ==
    /\ UNCHANGED tempVars
    /\ phase = "open"
    /\ output' = SaveAsInterrupted(
                     UpdateTextContent(extract, formatted_citations, linesep), k)
    /\ last' = Call("create_formatted_docx", 0, formatted_citations, << >>, "raised")
    /\ phase' = "closed"
    /\ prevExtract' = extract
    /\ prevOutput' = output
    /\ nOps' = nOps + 1
    /\ UNCHANGED <<linesep, source, extract, activation, notes, word_xml>>
    /\ UNCHANGED relVars

NextFormat ==
    /\ phase = "open"
    /\ \/ \E cs \in CitationLists : DoCreateFormattedDocx(cs)
       \/ \E cs \in CitationLists, k \in 0..(Len(WalkOrder) - 1) :
            DoCreateFormattedDocxActivationFails(cs, k)
       \/ \E cs \in CitationLists, k \in 0..(Len(WalkOrder) - 1) :
            DoCreateFormattedDocxZipFails(cs, k)

SpecFormat == InitFormat /\ [][NextFormat]_vars

(***************************************************************************)
(* Reading the notes: WordDocumentProcessor(docx_path).get_endnotes(), and *)
(* parse_citations on a part that extract_structure read.                  *)
(***************************************************************************)
InitNotes ==
    /\ linesep \in Lineseps
    /\ source \in ReadDocuments
    /\ extract = Extract(source)
    /\ output = NoArchive
    /\ phase = "open"
    /\ last = NoCall
    /\ prevExtract = extract
    /\ prevOutput = output
    /\ nOps = 0
    /\ relationships = << >>
    /\ prevRelationships = << >>
    /\ returned = << >>
    /\ activation = ""
    /\ notes = << >>
    /\ word_xml = << >>
    /\ temp_root = NoTempDirs
    /\ processors = << >>

DoGetEndnotes ==
    /\ UNCHANGED tempVars
    /\ phase = "open"
    /\ notes' = GetEndnotes(extract)
    /\ last' = Call("get_endnotes", 0, <<EndnotesXml>>, << >>, "returned")
    /\ prevExtract' = extract
    /\ prevOutput' = output
    /\ UNCHANGED <<linesep, source, extract, output, phase, nOps, activation,
                   word_xml>>
    /\ UNCHANGED relVars

DoParseCitations(xml_file) ==
    /\ UNCHANGED tempVars
    /\ phase = "open"
    /\ notes' = ParseCitations(extract, xml_file)
    /\ last' = Call("parse_citations", 0, <<xml_file>>, << >>, "returned")
    /\ prevExtract' = extract
    /\ prevOutput' = output
    /\ UNCHANGED <<linesep, source, extract, output, phase, nOps, activation,
                   word_xml>>
    /\ UNCHANGED relVars

NextNotes ==
    \/ DoGetEndnotes
    \/ \E xml_file \in PatchedFiles : DoParseCitations(xml_file)

SpecNotes == InitNotes /\ [][NextNotes]_vars

(***************************************************************************)
(* The translation of write_endnote: a RelationshipManager is made for the *)
(* relationships part of the directory (line 95) and _html_to_word_xml is  *)
(* called on the markup with it (line 103).  Every call has a manager of   *)
(* its own, so a behaviour makes one call.                                 *)
(***************************************************************************)
InitTranslate ==
    /\ linesep = "\n"
    /\ source \in TranslateDocuments
    /\ extract = Extract(source)
    /\ output = NoArchive
    /\ phase = "open"
    /\ last = NoCall
    /\ prevExtract = extract
    /\ prevOutput = output
    /\ nOps = 0
    /\ relationships = << >>
    /\ prevRelationships = << >>
    /\ returned = << >>
    /\ activation = ""
    /\ notes = << >>
    /\ word_xml = << >>
    /\ temp_root = NoTempDirs
    /\ processors = << >>

DoHtmlToWordXml(html, uuids) ==
    /\ UNCHANGED tempVars
    /\ phase = "open"
    /\ LET rel_manager == RelsLoad(extract.rels)
           w == HtmlToWordXml(html, rel_manager, uuids)
       IN /\ word_xml' = w.xml
          /\ relationships' = w.table
          /\ prevRelationships' = rel_manager
    /\ last' = Call("_html_to_word_xml", 0, html, uuids, "returned")
    /\ phase' = "closed"
    /\ UNCHANGED <<linesep, source, extract, output, prevExtract,
                   prevOutput, nOps, returned, activation, notes>>

NextTranslate ==
    /\ phase = "open"
    /\ \E html \in TranslatorMarkups :
         \E uuids \in UuidDraws(html) : DoHtmlToWordXml(html, uuids)

SpecTranslate == InitTranslate /\ [][NextTranslate]_vars


(***************************************************************************)
(* create_formatted_docx(original_path, formatted_citations, output_path,  *)
(* docx_structure) of app.py: extract holds the files of                   *)
(* docx_structure['temp_dir'], which the call removes when it ends.        *)
(***************************************************************************)
InitApp ==
    /\ linesep \in Lineseps
    /\ source \in AppDocuments
    /\ extract = Extract(source)
    /\ output \in {NoArchive, Zip(source)}
    /\ phase = "open"
    /\ last = NoCall
    /\ prevExtract = extract
    /\ prevOutput = output
    /\ nOps = 0
    /\ relationships = << >>
    /\ prevRelationships = << >>
    /\ returned = << >>
    /\ activation = ""
    /\ notes = << >>
    /\ word_xml = << >>
    /\ temp_root = NoTempDirs
    /\ processors = << >>

\* every step succeeds: lines 219-258
DoAppCreateFormattedDocx(formatted_citations) ==
    /\ UNCHANGED tempVars
    /\ phase = "open"
    /\ output' = Zip(SaveAsWrites(
                     AppUpdateEndnotes(extract, formatted_citations, linesep)))
    /\ extract' = EmptyArchive
    /\ last' = Call("app.create_formatted_docx", 0, formatted_citations, << >>,
                    "True")
    /\ phase' = "closed"
    /\ prevExtract' = extract
    /\ prevOutput' = output
    /\ nOps' = nOps + 1
    /\ UNCHANGED <<linesep, source, activation, notes, word_xml>>
    /\ UNCHANGED relVars

\* writing part k+1 of the archive raises: the exception leaves the function
\* after the finally clause
DoAppCreateFormattedDocxZipFails(formatted_citations, k) ==
    /\ UNCHANGED tempVars
    /\ phase = "open"
    /\ output' = SaveAsInterrupted(
                     AppUpdateEndnotes(extract, formatted_citations, linesep), k)
    /\ extract' = EmptyArchive
    /\ last' = Call("app.create_formatted_docx", 0, formatted_citations, << >>,
                    "raised")
    /\ phase' = "closed"
    /\ prevExtract' = extract
    /\ prevOutput' = output
    /\ nOps' = nOps + 1
    /\ UNCHANGED <<linesep, source, activation, notes, word_xml>>
    /\ UNCHANGED relVars

NextApp ==
    /\ phase = "open"
    /\ \/ \E cs \in AppCitationLists : DoAppCreateFormattedDocx(cs)
       \/ \E cs \in AppCitationLists, k \in 0..(Len(WalkOrder) - 1) :
            DoAppCreateFormattedDocxZipFails(cs, k)

SpecApp == InitApp /\ [][NextApp]_vars

(***************************************************************************)
(* One WordDocumentProcessor: write_endnote, which may fail while it saves *)
(* the relationships part, and get_endnotes.                               *)
(***************************************************************************)
InitWrite ==
    /\ linesep \in Lineseps
    /\ source \in WriteDocuments
    /\ extract = Extract(source)
    /\ output = NoArchive
    /\ phase = "open"
    /\ last = NoCall
    /\ prevExtract = extract
    /\ prevOutput = output
    /\ nOps = 0
    /\ relationships = << >>
    /\ prevRelationships = << >>
    /\ returned = << >>
    /\ activation = ""
    /\ notes = << >>
    /\ word_xml = << >>
    /\ temp_root = NoTempDirs
    /\ processors = << >>

\* rel_manager._save() raises (permission denied, disk full)
DoWriteEndnoteSaveFails(note_id, new_html, uuids, how) ==
    /\ UNCHANGED tempVars
    /\ phase = "open"
    /\ nOps < MaxOps
    /\ LET w == WriteEndnoteSaveFails(extract, note_id, new_html, uuids,
                                      linesep, how)
       IN /\ w.res = "raised"
          /\ extract' = w.dir
          /\ last' = Call("write_endnote", note_id, new_html, uuids, w.res)
    /\ prevExtract' = extract
    /\ prevOutput' = output
    /\ nOps' = nOps + 1
    /\ UNCHANGED <<linesep, source, output, phase, activation, notes, word_xml>>
    /\ UNCHANGED relVars

NextWrite ==
    \/ \E note_id \in NoteIds, new_html \in WriteMarkups :
         \E uuids \in UuidDraws(new_html) :
           \/ DoWriteEndnote(note_id, new_html, uuids)
           \/ \E how \in SaveFailures :
                DoWriteEndnoteSaveFails(note_id, new_html, uuids, how)
    \/ DoGetEndnotes

SpecWrite == InitWrite /\ [][NextWrite]_vars

(***************************************************************************)
(* Several WordDocumentProcessor instances opened on the same docx_path,   *)
(* and calls of their methods in any order.  Processor i works on the      *)
(* directory temp_root[processors[i]].extracted.                           *)
(***************************************************************************)
InitProcessors ==
    /\ linesep = "\n"
    /\ source \in ProcessorDocuments
    /\ extract = EmptyArchive
    /\ output = NoArchive
    /\ phase = "open"
    /\ last = NoCall
    /\ prevExtract = extract
    /\ prevOutput = output
    /\ nOps = 0
    /\ relationships = << >>
    /\ prevRelationships = << >>
    /\ returned = << >>
    /\ activation = ""
    /\ notes = << >>
    /\ word_xml = << >>
    /\ temp_root = NoTempDirs
    /\ processors = << >>

ExtractDir(i) == temp_root[processors[i]].extracted

\* WordDocumentProcessor(docx_path): mkdtemp, then extractall into the
\* directory (files that are there are overwritten)
DoOpen(d) ==
    /\ Len(processors) < MaxProcessors
    /\ d \in Mkdtemp(temp_root)
    /\ temp_root' = [temp_root EXCEPT ![d] = TempDir(Extract(source))]
    /\ processors' = Append(processors, d)
    /\ last' = Call("__init__", 0, << >>, << >>, "returned")
    /\ UNCHANGED <<linesep, source, extract, output, phase, prevExtract,
                   prevOutput, nOps, activation, notes, word_xml>>
    /\ UNCHANGED relVars

DoWriteEndnoteOf(i, note_id, new_html, uuids) ==
    /\ nOps < MaxOps
    /\ LET w == WriteEndnote(ExtractDir(i), note_id, new_html, uuids, linesep)
       IN /\ temp_root' = [temp_root EXCEPT ![processors[i]] = TempDir(w.dir)]
          /\ last' = Call("write_endnote", note_id, new_html, uuids, w.res)
    /\ nOps' = nOps + 1
    /\ UNCHANGED <<linesep, source, extract, output, phase, prevExtract,
                   prevOutput, activation, notes, word_xml, processors>>
    /\ UNCHANGED relVars

DoGetEndnotesOf(i) ==
    /\ notes' = GetEndnotes(ExtractDir(i))
    /\ last' = Call("get_endnotes", 0, <<EndnotesXml>>, << >>, "returned")
    /\ UNCHANGED <<linesep, source, extract, output, phase, prevExtract,
                   prevOutput, nOps, activation, word_xml>>
    /\ UNCHANGED relVars
    /\ UNCHANGED tempVars

DoSaveAsOf(i) ==
    /\ output' = Zip(SaveAsWrites(ExtractDir(i)))
    /\ last' = Call("save_as", 0, << >>, << >>, "returned")
    /\ UNCHANGED <<linesep, source, extract, phase, prevExtract, prevOutput,
                   nOps, activation, notes, word_xml>>
    /\ UNCHANGED relVars
    /\ UNCHANGED tempVars

NextProcessors ==
    \/ \E d \in TempNames : DoOpen(d)
    \/ \E i \in 1..Len(processors) :
         \/ \E note_id \in ProcessorNoteIds, new_html \in ProcessorMarkups :
              \E uuids \in UuidDraws(new_html) :
                DoWriteEndnoteOf(i, note_id, new_html, uuids)
         \/ DoGetEndnotesOf(i)
         \/ DoSaveAsOf(i)

SpecProcessors == InitProcessors /\ [][NextProcessors]_vars

(***************************************************************************)
(* What the claims speak of.                                               *)
(***************************************************************************)
EndnotesOf(a) == a.xml[EndnotesXml].b

IsNoteTag(t, id) == t.k \in {"noteOpen", "noteSelfClosed"} /\ t.n = id
HasNote(bytes, id) == \E i \in 1..Len(bytes) : IsNoteTag(bytes[i], id)

\* the indexes of the opening and of the closing tag of the note element id
\* (the same index for <w:endnote w:id="id"/>)
NoteElement(bytes, id) ==
    LET i == Least({x \in 1..Len(bytes) : IsNoteTag(bytes[x], id)})
    IN IF bytes[i].k = "noteSelfClosed" THEN <<i, i>>
       ELSE <<i, Least({j \in (i + 1)..Len(bytes) : bytes[j] = NoteClose})>>

NoteBytes(bytes, id) ==
    SubSeq(bytes, NoteElement(bytes, id)[1], NoteElement(bytes, id)[2])

\* the relationship ids of the w:hyperlink elements among the tokens
HyperlinkIds(tokens) ==
    {tokens[i].r : i \in {x \in 1..Len(tokens) : tokens[x].k = "hlOpen"}}

HasParagraph(tokens) == \E i \in 1..Len(tokens) : tokens[i] = POpen

Wrote == last.op = "write_endnote"
WroteOk == Wrote /\ last.res = "True"

\* the URL of a markup with one URL, as the translator cleans it
MarkupUrl(html) ==
    CleanUrl(SubSeq(html, UrlStart(html), UrlStop(html, UrlStart(html)) - 1))

UnescapeChar(c) ==
    CASE c = "&amp;" -> "&"
      [] c = "&lt;" -> "<"
      [] c = "&gt;" -> ">"
      [] c = "&quot;" -> "\""
      [] c = "&apos;" -> "'"
      [] OTHER -> c

\* the text, decoded, of the w:t that follows index i
TextAfter(tokens, i) ==
    LET a == FirstIn(tokens, i, TOpenLike)
        b == FirstIn(tokens, a, {TClose})
    IN [x \in 1..(b - a - 1) |-> UnescapeChar(tokens[a + x].s)]

C2_Isolation ==
    WroteOk =>
      LET old == EndnotesOf(prevExtract)
          new == EndnotesOf(extract)
          e == NoteElement(old, last.note_id)
          tail == IF e[1] = e[2] THEN Drop(old, e[2])
                  ELSE SubSeq(old, e[2], Len(old))
      IN /\ Len(new) >= e[1] + Len(tail)
         /\ SubSeq(new, 1, e[1]) = SubSeq(old, 1, e[1])
         /\ Drop(new, Len(new) - Len(tail)) = tail
         /\ extract.xml[StylesXml] = prevExtract.xml[StylesXml]

(***************************************************************************)
(* C4  Hyperlink preservation: when the note held a relationship-backed    *)
(* hyperlink and the markup holds exactly one URL, the note written keeps  *)
(* the relationship id of that hyperlink, the relationship now targets the *)
(* URL of the markup, and no relationship is minted.                       *)
(***************************************************************************)
C4_HyperlinkPreserved ==
    (/\ WroteOk
     /\ CountUrls(last.html) = 1
     /\ HyperlinkIds(NoteBytes(EndnotesOf(prevExtract), last.note_id)) # {}
     /\ HyperlinkIds(NoteBytes(EndnotesOf(prevExtract), last.note_id))
          \subseteq Ids(RelsLoad(prevExtract.rels)))
    => /\ HyperlinkIds(NoteBytes(EndnotesOf(extract), last.note_id))
            = HyperlinkIds(NoteBytes(EndnotesOf(prevExtract), last.note_id))
       /\ \A r \in HyperlinkIds(NoteBytes(EndnotesOf(extract), last.note_id)) :
            Lookup(RelsLoad(extract.rels), r).target = MarkupUrl(last.html)
       /\ Ids(RelsLoad(extract.rels)) = Ids(RelsLoad(prevExtract.rels))

(***************************************************************************)
(* C5  No dangling relationship: in a document whose hyperlinks all        *)
(* resolved when it was opened, after any calls of write_endnote every     *)
(* r:id of a w:hyperlink of endnotes.xml is an id of endnotes.xml.rels     *)
(* whose target is the URL the hyperlink shows.                            *)
(***************************************************************************)
Resolves(a) ==
    LET bytes == EndnotesOf(a)
        table == RelsLoad(a.rels)
    IN \A i \in 1..Len(bytes) :
         bytes[i].k = "hlOpen"
         => /\ HasId(table, bytes[i].r)
            /\ Lookup(table, bytes[i].r).target = TextAfter(bytes, i)

C5_NoDanglingRelationship ==
    (phase = "open" /\ Resolves(source)) => Resolves(extract)

(***************************************************************************)
(* C8  Atomic save: a save_as that fails leaves at the destination what    *)
(* was there before the call, never a partly written archive.              *)
(***************************************************************************)
C8_AtomicSave ==
    /\ output.st # "partial"
    /\ (last.op = "save_as" /\ last.res = "raised") => output = prevOutput

(***************************************************************************)
(* C9  NoteNotFound: write_endnote for an id that no note element of       *)
(* endnotes.xml has returns False and leaves every part, endnotes.xml and  *)
(* endnotes.xml.rels among them, with the bytes it had.                    *)
(***************************************************************************)
C9_NoteNotFound ==
    (Wrote /\ ~HasNote(EndnotesOf(prevExtract), last.note_id))
    => /\ last.res = "False"
       /\ PartPaths(extract) = PartPaths(prevExtract)
       /\ extract = prevExtract

C9_Witness ==
    /\ Wrote /\ ~HasNote(EndnotesOf(prevExtract), last.note_id)
    /\ CountUrls(last.html) > 0
    /\ nOps = MaxOps

(***************************************************************************)
(* C10  MalformedNote: write_endnote on a note element that has no         *)
(* paragraph child does not return True and leaves every part unchanged.   *)
(***************************************************************************)
C10_MalformedNote ==
    (/\ Wrote
     /\ HasNote(EndnotesOf(prevExtract), last.note_id)
     /\ ~HasParagraph(NoteBytes(EndnotesOf(prevExtract), last.note_id)))
    => /\ last.res # "True"
       /\ extract = prevExtract

(***************************************************************************)
(* C3  Idempotence of link activation: after process has run, a second run *)
(* leaves document.xml, endnotes.xml and footnotes.xml as the first run    *)
(* left them.                                                              *)
(***************************************************************************)
C3_ActivationIdempotent ==
    (last.op = "process" /\ last.res = "True")
    => \A p \in TargetFiles :
         Activate(Extract(output.a), linesep).xml[p] = output.a.xml[p]


(***************************************************************************)
(* C6  Relationship id uniqueness: the id add_hyperlink returns is not an  *)
(* id of the table it is called on, so the call overwrites no entry and    *)
(* the table has one entry more.                                           *)
(***************************************************************************)
C6_IdUnique ==
    last.op = "add_hyperlink"
    => /\ returned \notin Ids(prevRelationships)
       /\ Len(relationships) = Len(prevRelationships) + 1
       /\ SubSeq(relationships, 1, Len(prevRelationships)) = prevRelationships

(***************************************************************************)
(* C7  Deterministic id generation, as claimed: add_hyperlink returns rIdN *)
(* with N one more than the highest numeric suffix of the ids of the       *)
(* table, and inserts the entry (id, url, hyperlink type, external).       *)
(***************************************************************************)
IsNumeric(rid) == \A i \in 1..Len(rid) : rid[i] < 10

RECURSIVE Value(_)
Value(rid) ==
    IF rid = << >> THEN 0
    ELSE 10 * Value(SubSeq(rid, 1, Len(rid) - 1)) + rid[Len(rid)]

HighestSuffix(table) ==
    LET V == {Value(rid) : rid \in {x \in Ids(table) : IsNumeric(x)}} \cup {0}
    IN CHOOSE v \in V : \A w \in V : w <= v

InsertedEntry ==
    /\ HasId(relationships, returned)
    /\ Lookup(relationships, returned) =
         [id |-> returned, target |-> last.html, type |-> HyperlinkType,
          external |-> TRUE]

Patchable(dir, citation) ==
    \E p \in PatchedFiles :
      /\ dir.xml[p].ex
      /\ LET content == ReadText(dir.xml[p].b)
             match == SearchNoteRegex(content, TagName(p), citation.id)
         IN /\ match # <<0, 0>>
            /\ SearchTextNode(SubSeq(content, match[1] + 1, match[2] - 1))
                 # <<0, 0>>

Formatted == last.op = "create_formatted_docx"

C11_NoSilentSuccess ==
    (Formatted /\ last.res = "True")
    => /\ \A i \in 1..Len(last.html) : Patchable(prevExtract, last.html[i])
       /\ activation = "True"

(***************************************************************************)
(* C12  Reserved ids, as claimed: the ids get_endnotes (parse_citations)   *)
(* returns are the ids of the note elements of the part other than -1 and  *)
(* 0, in document order.                                                   *)
(***************************************************************************)
Read == last.op \in {"get_endnotes", "parse_citations"}
PartRead == prevExtract.xml[last.html[1]].b

IsNoteOpening(t) == t.k \in {"noteOpen", "noteSelfClosed", "footnoteOpen"}
SelfClosedIn(bytes) == \E i \in 1..Len(bytes) : bytes[i].k = "noteSelfClosed"

\* the indexes of the opening tags of the notes whose id is not reserved
Unreserved(bytes) ==
    {i \in 1..Len(bytes) : IsNoteOpening(bytes[i]) /\ bytes[i].n \notin {-1, 0}}

\* the note that opens at index i holds a character that is not white space
HasTextAt(bytes, i) ==
    LET close == Least({j \in (i + 1)..Len(bytes) :
                          bytes[j] \in {NoteClose, FootnoteClose}})
    IN \E x \in i..close : bytes[x].k = "chr" /\ ~IsSpace(bytes[x].s)

\* the k-th index of I
Kth(I, k) == CHOOSE i \in I : Cardinality({x \in I : x < i}) = k - 1

\* notes holds, in order, one entry for each opening tag of I
ReturnedAre(bytes, I) ==
    /\ Len(notes) = Cardinality(I)
    /\ \A k \in 1..Len(notes) : notes[k].id = bytes[Kth(I, k)].n

RPrBold == Tag("<w:rPr><w:b/></w:rPr>")

\* the text of the run, decoded
RunText(run) ==
    LET IsChr(t) == t.k = "chr"
        cs == SelectSeq(run, IsChr)
    IN [x \in 1..Len(cs) |-> UnescapeChar(cs[x].s)]

\* the runs among the tokens, in order; linked: the run is inside a
\* w:hyperlink element
RECURSIVE RunsOf(_, _)
RunsOf(xml, linked) ==
    IF xml = << >> THEN << >>
    ELSE IF Head(xml).k = "hlOpen" THEN RunsOf(Tail(xml), TRUE)
    ELSE IF Head(xml) = HlClose THEN RunsOf(Tail(xml), FALSE)
    ELSE IF Head(xml) = ROpen
         THEN LET e == FirstIn(xml, 1, {RClose})
                  run == SubSeq(xml, 1, e)
              IN <<[text |-> RunText(run),
                    italic |-> \E x \in 1..e : run[x] = RPrItalic,
                    bold |-> \E x \in 1..e : run[x] = RPrBold,
                    linked |-> linked]>>
                 \o RunsOf(Drop(xml, e), linked)
    ELSE RunsOf(Tail(xml), linked)

\* the bare URLs of the markup, in order
RECURSIVE UrlsOf(_)
UrlsOf(html) ==
    IF UrlStart(html) = 0 THEN << >>
    ELSE LET u == UrlStart(html)
             stop == UrlStop(html, u)
         IN <<SubSeq(html, u, stop - 1)>> \o UrlsOf(Drop(html, stop - 1))

Translated == last.op = "_html_to_word_xml"
Punctuation == {".", ",", ";", ":", ")"}

(***************************************************************************)
(* C13  Translator punctuation splitting: each bare URL of the markup gets *)
(* one hyperlink run whose text is the URL without its trailing run of     *)
(* the characters . , ; : ) and, when that run is not empty, the run right *)
(* after the hyperlink is a plain run that holds those characters in order. *)
(***************************************************************************)
C13_TranslatorPunctuation ==
    Translated =>
      LET runs == RunsOf(word_xml, FALSE)
          urls == UrlsOf(last.html)
          L == {k \in 1..Len(runs) : runs[k].linked}
      IN /\ Cardinality(L) = Len(urls)
         /\ \A i \in 1..Len(urls) :
              LET k == Kth(L, i)
                  c == runs[k].text
                  rest == Drop(urls[i], Len(c))
              IN /\ c # << >> /\ Len(c) <= Len(urls[i])
                 /\ c = SubSeq(urls[i], 1, Len(c))
                 /\ c[Len(c)] \notin Punctuation
                 /\ \A x \in 1..Len(rest) : rest[x] \in Punctuation
                 /\ rest # << >>
                    => /\ k < Len(runs)
                       /\ ~runs[k + 1].linked
                       /\ ~runs[k + 1].italic /\ ~runs[k + 1].bold
                       /\ runs[k + 1].text = rest

C13_Witness ==
    /\ Translated
    /\ UrlsOf(last.html) = <<<<UrlHead, ":", ".">>>>
    /\ \E k \in 1..Len(RunsOf(word_xml, FALSE)) :
         RunsOf(word_xml, FALSE)[k].text = <<":", ".">>

(***************************************************************************)
(* C14  Activator punctuation splitting: after process, the target and the *)
(* displayed text of every field it wrote end with none of the characters  *)
(* . , ; : ) and the displayed text is the target.                         *)
(***************************************************************************)
Processed == last.op = "process" /\ last.res = "True"

\* the characters of the instruction after HYPERLINK " at index i, decoded
FieldTarget(bytes, i) ==
    LET e == FirstIn(bytes, i, {InstrTail})
    IN [x \in 1..(e - i - 1) |-> UnescapeChar(UnescapeChar(bytes[i + x].s))]

EndsWithPunctuation(text) == text # << >> /\ text[Len(text)] \in Punctuation

C14_ActivatorPunctuation ==
    Processed =>
      \A p \in TargetFiles :
        LET bytes == output.a.xml[p].b IN
        \A i \in 1..Len(bytes) :
          /\ bytes[i] = RPrDisplay => ~EndsWithPunctuation(TextAfter(bytes, i))
          /\ bytes[i] = InstrHead => ~EndsWithPunctuation(FieldTarget(bytes, i))

(***************************************************************************)
(* C15  Activation skips what is already linked: process leaves every      *)
(* w:hyperlink element, and every field from its begin run to its end      *)
(* run, with the tokens it had.                                            *)
(***************************************************************************)
\* the elements of the part that start at an index of I and end with the
\* next token close
ElementsAt(bytes, I, close) ==
    {SubSeq(bytes, i, FirstIn(bytes, i, {close})) : i \in I}

HyperlinkElements(bytes) ==
    ElementsAt(bytes, {x \in 1..Len(bytes) : bytes[x].k = "hlOpen"}, HlClose)
FieldElements(bytes) ==
    ElementsAt(bytes, {x \in 1..Len(bytes) : bytes[x] = FldBegin}, FldEnd)

C15_SkipsLinked ==
    Processed =>
      \A p \in TargetFiles :
        /\ HyperlinkElements(prevOutput.a.xml[p].b)
             \subseteq HyperlinkElements(output.a.xml[p].b)
        /\ FieldElements(prevOutput.a.xml[p].b)
             \subseteq FieldElements(output.a.xml[p].b)

(***************************************************************************)
(* C16  Activation form, as claimed: when process changes endnotes.xml and *)
(* endnotes.xml.rels is there, it adds a relationship and a w:hyperlink    *)
(* element that refers to it, and no field.                                *)
(***************************************************************************)
Count(bytes, T) == Cardinality({i \in 1..Len(bytes) : bytes[i] \in T})
CountHyperlinks(bytes) ==
    Cardinality({i \in 1..Len(bytes) : bytes[i].k = "hlOpen"})

Dec(n) == IF n > 0 THEN n - 1 ELSE 0

RECURSIVE StyledChars(_, _, _, _)
StyledChars(html, i, b, url) ==
    IF html = << >> THEN << >>
    ELSE IF url /\ (IsSpace(Head(html)) \/ Head(html) = "<")
         THEN StyledChars(html, i, b, FALSE)
    ELSE IF url \/ Head(html) = UrlHead
         THEN <<[c |-> Head(html), italic |-> FALSE, bold |-> FALSE,
                 url |-> TRUE]>> \o StyledChars(Tail(html), i, b, TRUE)
    ELSE IF StartsWith(html, <<"<", "i", ">">>)
         THEN StyledChars(Drop(html, 3), i + 1, b, FALSE)
    ELSE IF StartsWith(html, <<"<", "/", "i", ">">>)
         THEN StyledChars(Drop(html, 4), Dec(i), b, FALSE)
    ELSE IF StartsWith(html, <<"<", "b", ">">>)
         THEN StyledChars(Drop(html, 3), i, b + 1, FALSE)
    ELSE IF StartsWith(html, <<"<", "/", "b", ">">>)
         THEN StyledChars(Drop(html, 4), i, Dec(b), FALSE)
    ELSE <<[c |-> Head(html), italic |-> i > 0, bold |-> b > 0,
            url |-> FALSE]>> \o StyledChars(Tail(html), i, b, FALSE)

\* the characters of the runs, each with the properties of its run
RunChars(runs) ==
    Flatten([k \in 1..Len(runs) |->
               [x \in 1..Len(runs[k].text) |->
                  [c |-> runs[k].text[x], italic |-> runs[k].italic,
                   bold |-> runs[k].bold, linked |-> runs[k].linked]]])

\* the runs give every character of the markup that is in no URL its style
StyledAsMarkup(html, xml) ==
    LET exp == StyledChars(html, 0, 0, FALSE)
        act == RunChars(RunsOf(xml, FALSE))
    IN /\ Len(act) = Len(exp)
       /\ \A x \in 1..Len(exp) :
            /\ act[x].c = exp[x].c
            /\ ~exp[x].url => /\ act[x].italic = exp[x].italic
                              /\ act[x].bold = exp[x].bold
                              /\ ~act[x].linked

\* a style tag is opened inside the same style tag
RECURSIVE Nests(_, _, _)
Nests(html, i, b) ==
    IF html = << >> THEN FALSE
    ELSE IF StartsWith(html, <<"<", "i", ">">>)
         THEN i > 0 \/ Nests(Drop(html, 3), i + 1, b)
    ELSE IF StartsWith(html, <<"<", "/", "i", ">">>)
         THEN Nests(Drop(html, 4), Dec(i), b)
    ELSE IF StartsWith(html, <<"<", "b", ">">>)
         THEN b > 0 \/ Nests(Drop(html, 3), i, b + 1)
    ELSE IF StartsWith(html, <<"<", "/", "b", ">">>)
         THEN Nests(Drop(html, 4), i, Dec(b))
    ELSE Nests(Tail(html), i, b)

(***************************************************************************)
(* C17  Inline markup translation: for a markup without nested tags, the   *)
(* runs hold the text of the markup, italic where it is inside <i>...</i>, *)
(* bold where it is inside <b>...</b>, and neither elsewhere.              *)
(***************************************************************************)
C17_InlineMarkup ==
    (Translated /\ ~Nests(last.html, 0, 0))
    => StyledAsMarkup(last.html, word_xml)

(***************************************************************************)
(* C18  Nested tags: for a markup that nests <i> in <i>, the text up to    *)
(* the closing tag of the outer <i>, the text after the inner closing tag  *)
(* included, is italic.                                                    *)
(***************************************************************************)
HasNoBold(html) ==
    \A x \in 1..Len(html) :
      ~StartsWith(Drop(html, x - 1), <<"<", "b", ">">>)

C18_NestedTags ==
    (Translated /\ Nests(last.html, 0, 0) /\ HasNoBold(last.html)
       /\ CountUrls(last.html) = 0)
    => StyledAsMarkup(last.html, word_xml)

(***************************************************************************)
(* C19  Escaping by the translator: no text node of the paragraph holds a  *)
(* raw <, > or &; the only elements are those of the runs and hyperlinks;  *)
(* and the text, decoded, is the markup without its <i> and </i>, so a tag *)
(* that is not defined is there as literal text.  (<b> and </b> are left   *)
(* out of the comparison: C17 is about them.)                              *)
(***************************************************************************)
WordElements ==
    {POpen, PClose, ROpen, RClose, TOpen, TOpenPreserve, TClose, RPrItalic,
     RPrBold, RPrHyperlink, HlClose}

StyleTags ==
    {<<"<", "i", ">">>, <<"<", "/", "i", ">">>,
     <<"<", "b", ">">>, <<"<", "/", "b", ">">>}

\* the characters without the tags of Tags
RECURSIVE WithoutTags(_, _)
WithoutTags(text, Tags) ==
    IF text = << >> THEN << >>
    ELSE IF \E t \in Tags : StartsWith(text, t)
         THEN WithoutTags(
                  Drop(text, Len(CHOOSE t \in Tags : StartsWith(text, t))), Tags)
    ELSE <<Head(text)>> \o WithoutTags(Tail(text), Tags)

\* the text of all runs, decoded
TextOf(xml) ==
    LET runs == RunsOf(xml, FALSE)
    IN Flatten([k \in 1..Len(runs) |-> runs[k].text])

C19_TranslatorEscapes ==
    Translated =>
      /\ \A x \in 1..Len(word_xml) :
           IF word_xml[x].k = "chr" THEN word_xml[x].s \notin {"<", ">", "&"}
           ELSE word_xml[x].k = "hlOpen" \/ word_xml[x] \in WordElements
      /\ WithoutTags(TextOf(word_xml), StyleTags)
           = WithoutTags(last.html, StyleTags)

C19_Witness ==
    /\ Translated
    /\ \E x \in 1..Len(last.html) :
         StartsWith(Drop(last.html, x - 1), <<"<", "u", ">">>)
    /\ \E x \in 1..Len(word_xml) : word_xml[x] = Chr("&lt;")
    /\ \E x \in 1..Len(word_xml) : word_xml[x] = Chr("&quot;")
    /\ \E x \in 1..Len(word_xml) : word_xml[x].k = "hlOpen"

(***************************************************************************)
(* C20  Relationship table round trip: a well-formed relationships part    *)
(* that is loaded and saved with no add_hyperlink in between holds the     *)
(* entries it held: the same ids, each with its target, type and external  *)
(* flag.                                                                   *)
(***************************************************************************)
\* the entries of a part, read with its namespace
EntriesOf(file) ==
    {[id |-> file.rels[i].id, target |-> file.rels[i].target,
      type |-> file.rels[i].type,
      external |-> (file.rels[i].mode = "External")] : i \in 1..Len(file.rels)}

C20_RelsRoundTrip ==
    (last.op = "_save" /\ nOps = 0 /\ source.rels.ex /\ source.rels.wf)
    => /\ extract.rels.ex /\ extract.rels.wf
       /\ EntriesOf(extract.rels) = EntriesOf(source.rels)

(***************************************************************************)
(* C21  Part preservation under patching: after a successful write_endnote *)
(* whose markup holds no URL, the archive save_as writes has the part      *)
(* paths it would have had before the call, and every part but             *)
(* word/endnotes.xml, word/_rels/endnotes.xml.rels among them, has the     *)
(* bytes it had.                                                           *)
(***************************************************************************)
C21_PartPreservation ==
    (WroteOk /\ CountUrls(last.html) = 0)
    => LET old == SaveAsWrites(prevExtract)
           new == SaveAsWrites(extract)
       IN /\ PartPaths(new) = PartPaths(old)
          /\ \A p \in XmlPaths \ {EndnotesXml} : new.xml[p] = old.xml[p]
          /\ new.rels = old.rels

(***************************************************************************)
(* C22  Document independence: a write_endnote of one processor leaves     *)
(* what get_endnotes and save_as of every other processor return as it     *)
(* was, and no two processors have the same directory.                     *)
(***************************************************************************)
\* processor i reads and saves after the step what it did before it
SameFor(i) ==
    LET before == temp_root[processors[i]].extracted
        after == temp_root'[processors'[i]].extracted
    IN /\ GetEndnotes(after) = GetEndnotes(before)
       /\ SaveAsWrites(after) = SaveAsWrites(before)

WriteStep == last'.op = "write_endnote" /\ nOps' = nOps + 1

C22_Independence ==
    [][/\ WriteStep =>
            \E j \in 1..Len(processors) :
              \A i \in 1..Len(processors) : i # j => SameFor(i)
       /\ \A i, j \in 1..Len(processors') :
            i # j => processors'[i] # processors'[j]]_vars

\* both processors are open, the first wrote a note and the second reads
\* what the source held
C22_Witness ==
    /\ Len(processors) = MaxProcessors
    /\ last.op = "get_endnotes"
    /\ nOps > 0
    /\ temp_root[processors[1]].extracted # Extract(source)
    /\ temp_root[processors[2]].extracted = Extract(source)
    /\ notes = GetEndnotes(Extract(source))

(***************************************************************************)
(* C23  Read-after-write: when get_endnotes is called after a successful   *)
(* write_endnote(id, m), it returns one note with that id, and the text of *)
(* that note is m without its <i> and </i> tags.                           *)
(***************************************************************************)
ItalicTags == {<<"<", "i", ">">>, <<"<", "/", "i", ">">>}

\* the entries of the returned list that have the id
NotesWithId(ns, id) == {k \in 1..Len(ns) : ns[k].id = id}

C23_ReadAfterWrite ==
    [][(WroteOk /\ last'.op = "get_endnotes")
       => /\ Cardinality(NotesWithId(notes', last.note_id)) = 1
          /\ \A k \in NotesWithId(notes', last.note_id) :
               notes'[k].text = WithoutTags(last.html, ItalicTags)]_vars

(***************************************************************************)
(* C24  No duplicated text after a blind replace: when create_formatted_docx *)
(* patches an endnote that had several text nodes, the text of the note in *)
(* the archive written is the formatted text of the citation; nothing of   *)
(* the second and later text nodes is left after it.                       *)
(***************************************************************************)
\* the text nodes among the tokens
CountTextNodes(tokens) == Count(tokens, TOpenLike)

\* one citation was given, for an endnote of a part without self-closed notes
OneCitationOf(dir) ==
    /\ Formatted /\ last.res = "True" /\ activation = "True"
    /\ Len(last.html) = 1
    /\ dir.xml[EndnotesXml].ex
    /\ ~SelfClosedIn(EndnotesOf(dir))
    /\ HasNote(EndnotesOf(dir), last.html[1].id)

C24_NoDuplicatedText ==
    (/\ OneCitationOf(prevExtract)
     /\ CountTextNodes(NoteBytes(EndnotesOf(prevExtract), last.html[1].id)) > 1)
    => JoinedText(NoteBytes(EndnotesOf(output.a), last.html[1].id))
         = last.html[1].formatted

(***************************************************************************)
(* C25  Escaping in the blind-replace path: after create_formatted_docx no *)
(* text of endnotes.xml or footnotes.xml holds a raw <, > or &.            *)
(***************************************************************************)
RawMarkup == {Chr("<"), Chr(">"), Chr("&")}

C25_BlindReplaceEscapes ==
    (Formatted /\ last.res = "True")
    => \A p \in PatchedFiles : Count(output.a.xml[p].b, RawMarkup) = 0

(***************************************************************************)
(* C26  Unparseable relationships part: when endnotes.xml.rels is there    *)
(* and does not parse, write_endnote does not return True and leaves the   *)
(* part as it was.                                                         *)
(***************************************************************************)
C26_UnparseableRels ==
    (Wrote /\ prevExtract.rels.ex /\ ~prevExtract.rels.wf)
    => /\ last.res # "True"
       /\ extract.rels = prevExtract.rels

(***************************************************************************)
(* C28  Patch atomicity across the two parts: after write_endnote, also    *)
(* when saving the relationships part failed, every relationship id that   *)
(* the call brought into endnotes.xml is an id of an entry of              *)
(* endnotes.xml.rels on disk.                                              *)
(***************************************************************************)
\* the ids of the entries of the part as an XML parser reads it
IdsOnDisk(file) ==
    IF file.ex /\ file.wf THEN {file.rels[i].id : i \in 1..Len(file.rels)}
    ELSE {}

C28_PatchAtomicity ==
    Wrote =>
      (HyperlinkIds(EndnotesOf(extract)) \ HyperlinkIds(EndnotesOf(prevExtract)))
        \subseteq IdsOnDisk(extract.rels)

(***************************************************************************)
(* C27  Patch scope in create_formatted_docx of app.py: when one citation  *)
(* is given for a note that has text, every other note of endnotes.xml has *)
(* the bytes it had, the part has as many note elements as before, and in  *)
(* the note patched the paragraph and the run of the first text node are   *)
(* there and closed.                                                       *)
(***************************************************************************)
AppFormatted == last.op = "app.create_formatted_docx" /\ last.res = "True"

NoteOpenings(bytes) ==
    {i \in 1..Len(bytes) : bytes[i].k \in {"noteOpen", "noteSelfClosed"}}

\* as many start tags as end tags, and at least one
Closed(tokens, open, close) ==
    /\ Count(tokens, {open}) > 0
    /\ Count(tokens, {open}) = Count(tokens, {close})

C27_AppPatchScope ==
    (/\ AppFormatted
     /\ Len(last.html) = 1
     /\ ~SelfClosedIn(EndnotesOf(prevExtract))
     /\ HasNote(EndnotesOf(prevExtract), last.html[1].id))
    => LET old == EndnotesOf(prevExtract)
           new == EndnotesOf(output.a)
           id == last.html[1].id
       IN /\ Cardinality(NoteOpenings(new)) = Cardinality(NoteOpenings(old))
          /\ \A i \in NoteOpenings(old) :
               old[i].n # id
               => /\ HasNote(new, old[i].n)
                  /\ NoteBytes(new, old[i].n) = NoteBytes(old, old[i].n)
          /\ HasNote(new, id)
          /\ Closed(NoteBytes(new, id), POpen, PClose)
          /\ Closed(NoteBytes(new, id), ROpen, RClose)


(***************************************************************************)
(* C29  Link target equals displayed URL: after process, the URL of every  *)
(* HYPERLINK instruction, decoded as XML once, is the displayed text of    *)
(* its field, decoded as XML once.                                         *)
(***************************************************************************)
\* what an XML parser gives for one character of a part; a '&' that opens
\* no entity is not well formed, and "malformed" stands for it
XmlDecodeChar(c) ==
    CASE c = "&amp;" -> "&"
      [] c = "&lt;" -> "<"
      [] c = "&gt;" -> ">"
      [] c = "&quot;" -> "\""
      [] c = "&apos;" -> "'"
      [] c = "&#x27;" -> "'"
      [] c = "&amp;amp;" -> "&amp;"
      [] c = "&amp;lt;" -> "&lt;"
      [] c = "&amp;gt;" -> "&gt;"
      [] c = "&amp;quot;" -> "&quot;"
      [] c = "&amp;apos;" -> "&apos;"
      [] c = "&amp;amp" -> "&amp"
      [] c = "&amp;lt" -> "&lt"
      [] c = "&amp;gt" -> "&gt"
      [] c = "&amp;quot" -> "&quot"
      [] c = "&amp;apos" -> "&apos"
      [] c \in {"&amp", "&lt", "&gt", "&quot", "&apos"} -> "malformed"
      [] OTHER -> c

\* the characters joined into one string
RECURSIVE Joined(_)
Joined(cs) == IF cs = << >> THEN "" ELSE Head(cs) \o Joined(Tail(cs))

\* the URL of the instruction that starts at index i, decoded
InstrUrl(bytes, i) ==
    LET e == FirstIn(bytes, i, {InstrTail})
    IN Joined([x \in 1..(e - i - 1) |-> XmlDecodeChar(bytes[i + x].s)])

\* the displayed text of the field whose instruction starts at i, decoded
DisplayedUrl(bytes, i) ==
    LET d == FirstIn(bytes, i, {RPrDisplay})
        a == FirstIn(bytes, d, TOpenLike)
        b == FirstIn(bytes, a, {TClose})
    IN Joined([x \in 1..(b - a - 1) |-> XmlDecodeChar(bytes[a + x].s)])

C29_TargetIsDisplayed ==
    Processed =>
      \A p \in TargetFiles :
        LET bytes == output.a.xml[p].b IN
        \A i \in 1..Len(bytes) :
          bytes[i] = InstrHead => InstrUrl(bytes, i) = DisplayedUrl(bytes, i)


(***************************************************************************)
(* C30  Activation conserves visible text: after process, in each of       *)
(* document.xml, endnotes.xml and footnotes.xml the contents of the text   *)
(* nodes, joined in document order, are what they were before.             *)
(***************************************************************************)
\* a line end inside a text node, as an XML parser passes it on
XmlLineEnd(c) == IF c \in {"\r\n", "\r"} THEN "\n" ELSE c

\* the strings ss[lo] .. ss[hi] joined
RECURSIVE JoinRange(_, _, _)
JoinRange(ss, lo, hi) ==
    IF lo > hi THEN ""
    ELSE IF lo = hi THEN ss[lo]
    ELSE LET mid == (lo + hi) \div 2
         IN JoinRange(ss, lo, mid) \o JoinRange(ss, mid + 1, hi)

\* the token at index i is a character of a text node: the last w:t tag
\* before it is an opening one
InTextNode(bytes, i) ==
    LET T == {j \in 1..(i - 1) : bytes[j] \in TOpenLike \cup {TClose}}
    IN /\ bytes[i].k = "chr"
       /\ T # {}
       /\ bytes[CHOOSE j \in T : \A k \in T : k <= j] \in TOpenLike

\* the contents of the text nodes of a part, joined in document order
TextContent(bytes) ==
    JoinRange([i \in 1..Len(bytes) |->
                 IF InTextNode(bytes, i) THEN XmlLineEnd(bytes[i].s) ELSE ""],
              1, Len(bytes))

SplitAt(bytes, i) ==
    /\ i + 4 <= Len(bytes)
    /\ bytes[i] = FldEnd
    /\ SubSeq(bytes, i + 1, i + 3) = <<RClose, ROpen, TOpen>>
    /\ bytes[i + 4] \in {Chr("."), Chr(";")}

=============================================================================
